---- MODULE Spec2Model ----
(***************************************************************************)
(* A model of the Petstore traffic driver (src/traffic-simulator.py): the  *)
(* tracked entity lists, the HTTP wrapper _make_request with its 404       *)
(* clean-up, the CRUD wrappers, the op_* operations, refresh_state,        *)
(* ensure_minimum_entities and the sequential and parallel run loops.      *)
(*                                                                         *)
(* Every thread of the driver is a frame pc[t].  One step of a thread is   *)
(* one of: picking an operation and sending its first request, receiving   *)
(* the response of the request in flight (with everything the code does    *)
(* until the next request is sent or the routine returns), the removal     *)
(* that the 404 handler does after it has copied the list, and the         *)
(* bookkeeping of the loop that called the routine.                        *)
(*                                                                         *)
(* The remote API is the environment.  An unreliable remote may answer a    *)
(* request with any response of Responses(...); a working store answers    *)
(* by what it holds.  Identifiers live in small universes.                 *)
(***************************************************************************)
EXTENDS Integers, Sequences, FiniteSets, TLC

VARIABLES
  pet_ids,      \* self.pet_ids: list of tracked pet IDs
  usernames,    \* self.usernames: list of tracked usernames (character sequences)
  order_ids,    \* self.order_ids: list of tracked order IDs
  min_pets,     \* self.min_pets
  min_users,    \* self.min_users
  min_orders,   \* self.min_orders
  pc,           \* per thread: the frame of the routine it executes
  operation_count, \* per thread: operation_count of its loop
  universe,     \* the identifiers the remote store can hold in this run
  remote,       \* how the remote behaves in this run: Unreliable or WorkingStore
  issuer,       \* the token issuer (create_customer_token.py), "off" in a run
                \* of the driver alone
  auth,         \* api_key, jwt_tokens and the headers of the last request
  metrics       \* self.metrics of APITrafficSimulator
                \* (traffic-simulator-json-api.py), "off" in the other runs

vars == <<pet_ids, usernames, order_ids, min_pets, min_users, min_orders,
          pc, operation_count, universe, remote, issuer, auth, metrics>>

----------------------------------------------------------------------------
\* Bounds of the model.

\* The deadline of a run falls after at most MaxOps operations of a loop.
MaxOps == 2
\* In the parallel run: after at most MaxWorkerOps operations of a worker
\* and MaxSupervisorRuns turns of the supervisory loop.
MaxWorkerOps == 1
MaxSupervisorRuns == 1
\* The wall clock of the token issuer ticks TicksPerSecond times a second
\* and is read at ticks 0..MaxClock.
TicksPerSecond == 2
MaxClock == 4
\* The simulator is given at most MaxTokenFiles token files.
MaxTokenFiles == 2

\* Program constants.

\* set(range(1, 6)): the protected identifiers are 1..5
ProtectedMax == 5
\* operation_count % 50 == 0
EnsureEvery == 50
\* range(1, 4): refresh_state probes orders and users 1..3
ProbeMax == 3

----------------------------------------------------------------------------
\* Strings are sequences of one-character strings, so that Python's
\* substring test `a in b` and str(int) are computed, not assumed.

DigitChar == <<"0", "1", "2", "3", "4", "5", "6", "7", "8", "9">>

RECURSIVE Str(_)
\* str(n) for a natural number n
Str(n) ==
  IF n < 10 THEN <<DigitChar[n + 1]>>
  ELSE Str(n \div 10) \o <<DigitChar[(n % 10) + 1]>>

\* Python's `a in b` for strings
IsSubstr(a, b) ==
  \E i \in 0..(Len(b) - Len(a)) :
     \A j \in 1..Len(a) : b[i + j] = a[j]

KwPet   == <<"p", "e", "t">>
KwUser  == <<"u", "s", "e", "r">>
KwOrder == <<"o", "r", "d", "e", "r">>

\* f"user{i}"
UserN(i) == KwUser \o Str(i)

\* f"user_{self.generate_random_string()}": "user_" and 8 lowercase letters
NameA == <<"u", "s", "e", "r", "_", "q", "k", "z", "h", "w", "m", "p", "a">>
NameB == <<"u", "s", "e", "r", "_", "x", "p", "e", "t", "v", "y", "c", "d">>

\* The universe of a run: the pet and order identifiers the remote store can
\* hold, the usernames of its fixtures (known) and the usernames that
\* generate_random_string can produce in the run (new).
Universe(pets, orders, known, new) ==
  [pets |-> pets, orders |-> orders, known |-> known, new |-> new]

PetPool   == {1, 6, 16}
OrderPool == {1, 6}
NewNames  == {NameA, NameB}
NamePool  == {UserN(1)} \cup NewNames

BigUniverse == Universe(PetPool, OrderPool, {UserN(1)}, NewNames)

pet_statuses == {<<"s", "o", "l", "d">>,
                 <<"p", "e", "n", "d", "i", "n", "g">>,
                 <<"a", "v", "a", "i", "l", "a", "b", "l", "e">>}

\* self.protected_pet_ids, self.protected_user_ids, self.protected_order_ids
protected_pet_ids   == 1..ProtectedMax
protected_user_ids  == 1..ProtectedMax
protected_order_ids == 1..ProtectedMax

----------------------------------------------------------------------------
\* Requests.  A request is [m, path, id, name]; Endpoint gives the string
\* that _make_request receives as `endpoint`.

NoName == <<>>

Req(m, path, id, name) == [m |-> m, path |-> path, id |-> id, name |-> name]

NoReq == Req("none", "none", 0, NoName)

SPet       == <<"/", "p", "e", "t">>
SFindStat  == <<"/", "p", "e", "t", "/", "f", "i", "n", "d", "B", "y", "S", "t",
                "a", "t", "u", "s", "?", "s", "t", "a", "t", "u", "s", "=">>
SFindTags  == <<"/", "p", "e", "t", "/", "f", "i", "n", "d", "B", "y", "T", "a",
                "g", "s", "?", "t", "a", "g", "s", "=">>
SUser      == <<"/", "u", "s", "e", "r">>
SLogin     == <<"/", "u", "s", "e", "r", "/", "l", "o", "g", "i", "n", "?", "u",
                "s", "e", "r", "n", "a", "m", "e", "=">>
SPassword  == <<"&", "p", "a", "s", "s", "w", "o", "r", "d", "=", "p", "a", "s",
                "s", "w", "o", "r", "d", "1", "2", "3">>
SLogout    == <<"/", "u", "s", "e", "r", "/", "l", "o", "g", "o", "u", "t">>
SOrder     == <<"/", "s", "t", "o", "r", "e", "/", "o", "r", "d", "e", "r">>
SInventory == <<"/", "s", "t", "o", "r", "e", "/", "i", "n", "v", "e", "n", "t",
                "o", "r", "y">>

Endpoint(r) ==
  CASE r.path = "pet"          -> SPet
    [] r.path = "pet_id"       -> SPet \o <<"/">> \o Str(r.id)
    [] r.path = "findByStatus" -> SFindStat \o r.name
    [] r.path = "findByTags"   -> SFindTags \o r.name
    [] r.path = "user"         -> SUser
    [] r.path = "user_name"    -> SUser \o <<"/">> \o r.name
    [] r.path = "login"        -> SLogin \o r.name \o SPassword
    [] r.path = "logout"       -> SLogout
    [] r.path = "order"        -> SOrder
    [] r.path = "order_id"     -> SOrder \o <<"/">> \o Str(r.id)
    [] r.path = "inventory"    -> SInventory
    [] OTHER                   -> <<>>

----------------------------------------------------------------------------
\* Python lists.

Contains(s, x) == \E i \in 1..Len(s) : s[i] = x

RECURSIVE Remove(_, _)
\* list.remove(x) for an x that is in the list: drops its first occurrence
Remove(s, x) ==
  IF s = <<>> THEN <<>>
  ELSE IF Head(s) = x THEN Tail(s)
  ELSE <<Head(s)>> \o Remove(Tail(s), x)

\* `if x in s: s.remove(x)`
Discard(s, x) == IF Contains(s, x) THEN Remove(s, x) ELSE s

Elems(s) == {s[i] : i \in 1..Len(s)}

\* max(0, n)
Max0(n) == IF n > 0 THEN n ELSE 0

Lists(p, u, o) == [pets |-> p, users |-> u, orders |-> o]

----------------------------------------------------------------------------
\* Responses.  kind is what the transport did: "timeout"
\* (httpx.TimeoutException), "connect" (httpx.ConnectError), "other" (any
\* other exception of the transport) or "http" (a response with a status).
\* body is "json" (the JSON the wrapper expects, carrying id, name or ids),
\* "noid" (a JSON object without the identifier) or "badjson" (not JSON,
\* also the empty body of a 204).

Resp(kind, status, body, id, name, ids) ==
  [kind |-> kind, status |-> status, body |-> body, id |-> id, name |-> name,
   ids |-> ids]

Failures ==
  { Resp(k, 0, "badjson", 0, NoName, {}) : k \in {"timeout", "connect", "other"} }

ErrorStatuses   == {404, 500}
SuccessStatuses == {200, 201}

\* what a well-formed body of a 2xx answer to request r can carry, given the
\* tracked lists L: the remote does not hand out an identifier that is tracked
Payloads(r, L) ==
  CASE r.m = "post" /\ r.path = "pet" ->
         { Resp("http", 200, "json", i, NoName, {}) : i \in universe.pets \ Elems(L.pets) }
    [] r.m = "post" /\ r.path = "order" ->
         { Resp("http", 200, "json", i, NoName, {}) : i \in universe.orders \ Elems(L.orders) }
    [] r.m = "get" /\ r.path \in {"pet_id", "order_id"} ->
         { Resp("http", 200, "json", r.id, NoName, {}) }
    [] r.m = "get" /\ r.path = "user_name" ->
         { Resp("http", 200, "json", 0, r.name, {}) }
    [] r.m = "get" /\ r.path = "findByStatus" ->
         { Resp("http", 200, "json", 0, NoName, ids) : ids \in SUBSET universe.pets }
    [] OTHER -> { Resp("http", 200, "json", 0, NoName, {}) }

\* whether the remote can hold the entity that r names
Exists(r, L) ==
  CASE r.path = "pet_id"    -> r.id \in universe.pets
    [] r.path = "order_id"  -> r.id \in universe.orders
    [] r.path \in {"user_name", "login"} -> r.name \in universe.known \cup universe.new
    [] r.m = "post" /\ r.path = "user" -> ~Contains(L.users, r.name)
    [] OTHER -> TRUE

Unreliable   == "unreliable"
WorkingStore == "store"

\* the identifiers a store hands out next: the smallest of the pool above
\* those in use, or the one after it
FreshIds(pool, used) ==
  LET above == {i \in pool : \A u \in used : i > u}
      low   == {i \in above : \A j \in above : i <= j}
  IN  low \cup {i \in above : \E l \in low : i = l + 1}

\* the response of a working store that was empty when the driver started
\* and that nobody else uses: it holds what the driver has created, the
\* tracked lists L
StoreResponses(r, L) ==
  LET ok(id, name, ids) == Resp("http", 200, "json", id, name, ids)
      nf == Resp("http", 404, "json", 0, NoName, {})
  IN  CASE r.m = "post" /\ r.path = "pet" ->
             { ok(i, NoName, {}) : i \in FreshIds(universe.pets, Elems(L.pets)) }
        [] r.m = "post" /\ r.path = "order" ->
             { ok(i, NoName, {}) : i \in FreshIds(universe.orders, Elems(L.orders)) }
        [] r.m = "post" /\ r.path = "user" ->
             IF Contains(L.users, r.name)
             THEN { Resp("http", 500, "json", 0, NoName, {}) }
             ELSE { ok(0, r.name, {}) }
        [] r.path = "pet_id" ->
             IF Contains(L.pets, r.id) THEN { ok(r.id, NoName, {}) } ELSE { nf }
        [] r.path = "order_id" ->
             IF Contains(L.orders, r.id) THEN { ok(r.id, NoName, {}) } ELSE { nf }
        [] r.path \in {"user_name", "login"} ->
             IF Contains(L.users, r.name) THEN { ok(0, r.name, {}) } ELSE { nf }
        [] r.path = "findByStatus" ->
             { ok(0, NoName, ids) : ids \in SUBSET Elems(L.pets) }
        [] OTHER -> { ok(0, NoName, {}) }

\* every response an unreliable remote may give to request r
AnyResponses(r, L) ==
  Failures
  \cup { Resp("http", s, "json", 0, NoName, {}) : s \in ErrorStatuses }
  \cup (IF Exists(r, L)
        THEN { [p EXCEPT !.status = s] : p \in Payloads(r, L), s \in SuccessStatuses }
             \cup { Resp("http", s, b, 0, NoName, {}) :
                      s \in SuccessStatuses, b \in {"noid", "badjson"} }
             \cup { Resp("http", 204, "badjson", 0, NoName, {}) }
        ELSE {})

\* every response the environment may give to request r
Responses(r, L) ==
  IF remote = WorkingStore THEN StoreResponses(r, L) ELSE AnyResponses(r, L)

----------------------------------------------------------------------------
\* _make_request, lines 361-420.

\* response.raise_for_status() passes
IsSuccess(status) == status >= 200 /\ status <= 299

\* the value _make_request returns when the 404 clean-up does not run:
\* "resp" for the response, "none" for None
MakeRequestResult(r, resp) ==
  IF resp.kind # "http" THEN "none"
  ELSE IF r.m = "delete" /\ resp.status \in {200, 204} THEN "resp"
  ELSE IF IsSuccess(resp.status) THEN "resp"
  ELSE "none"

\* [str(x) for x in s]
Strs(s) == [i \in 1..Len(s) |-> Str(s[i])]

\* any(x in endpoint for x in strs)
AnyIn(strs, e) == \E i \in 1..Len(strs) : IsSubstr(strs[i], e)

\* the index at which `for x in strs: if x in endpoint:` stops
FirstIn(strs, e) ==
  LET I == {i \in 1..Len(strs) : IsSubstr(strs[i], e)}
  IN  CHOOSE i \in I : \A j \in I : i <= j

NoRm == [kind |-> "none", id |-> 0, name |-> NoName]

\* the entry that the 404 handler picks for removal, lines 394-415
CleanupTarget(r, L) ==
  LET e == Endpoint(r)
  IN  IF IsSubstr(KwPet, e) /\ AnyIn(Strs(L.pets), e)
      THEN [kind |-> "pet", id |-> L.pets[FirstIn(Strs(L.pets), e)], name |-> NoName]
      ELSE IF IsSubstr(KwUser, e) /\ AnyIn(L.users, e)
      THEN [kind |-> "user", id |-> 0, name |-> L.users[FirstIn(L.users, e)]]
      ELSE IF IsSubstr(KwOrder, e) /\ AnyIn(Strs(L.orders), e)
      THEN [kind |-> "order", id |-> L.orders[FirstIn(Strs(L.orders), e)],
            name |-> NoName]
      ELSE NoRm

\* the response makes _make_request enter the 404 branch
Is404(resp) == resp.kind = "http" /\ resp.status = 404

----------------------------------------------------------------------------
\* Frames.  A thread's frame f holds the routine it runs (op: an op_*
\* operation, "refresh" or "ensure"), who called it (caller), the wrapper
\* whose request is in flight (fn, req), the routine's loop position
\* (phase, k), the method and path of the requests the routine has sent, in
\* the order it sent them (log), the tracked lists
\* when the routine started (pre), how it ended (out, exc) and the entry
\* the 404 handler is about to remove (rm).  note is a history mark that
\* the scenario of two successive ensure_minimum_entities runs sets, seen
\* the status of the response in the scenario of one wrapper call.  A
\* machine state S is the tracked lists L with the frame f of the thread
\* that steps.

NoLists == Lists(<<>>, <<>>, <<>>)

Frame0 ==
  [at |-> "off", op |-> "none", caller |-> "none", fn |-> "none",
   req |-> NoReq, phase |-> "none", k |-> 0, log |-> <<>>, pre |-> NoLists,
   out |-> "none", exc |-> "none", rm |-> NoRm, note |-> "none", seen |-> 0]

At(a) == [Frame0 EXCEPT !.at = a]

Enter(L, op, caller) ==
  [L |-> L, f |-> [Frame0 EXCEPT !.at = "run", !.op = op, !.caller = caller,
                                 !.pre = L]]

\* the wrapper fn sends request r
Call(S, fn, r) ==
  [S EXCEPT !.f.at = "wait", !.f.fn = fn, !.f.req = r,
            !.f.log = Append(@, <<r.m, r.path>>)]

\* the routine returns with out ("ok": its success value, "fail": None,
\* False or [])
Return(S, out) == [S EXCEPT !.f.at = "ret", !.f.out = out]

\* the routine raises exc to its caller
Raise(S, exc) == [S EXCEPT !.f.at = "ret", !.f.out = "raise", !.f.exc = exc]

\* what a wrapper hands back: o is "call" (a request is in flight), "ok",
\* "fail" or the name of the exception it lets through
W(S, o) == [S |-> S, o |-> o]

\* random.choice(s) with the draw i
Pick(s, i) == s[((i - 1) % Len(s)) + 1]

PickRange == 1..Cardinality(PetPool \cup OrderPool)

\* the random draws of one step: an index, a new username, a status
Draw(i, name, status) == [i |-> i, name |-> name, status |-> status]

StatusList == <<<<"a", "v", "a", "i", "l", "a", "b", "l", "e">>,
                <<"p", "e", "n", "d", "i", "n", "g">>,
                <<"s", "o", "l", "d">>>>

NoDraw == Draw(1, NameA, StatusList[1])

----------------------------------------------------------------------------
\* The CRUD wrappers.  call_X is X up to its _make_request call; X is the
\* rest of it, given what _make_request did: res is "resp" (it returned the
\* response resp), "none" (it returned None) or "raise" (it raised the
\* ValueError of its 404 clean-up).

\* lines 513-525
call_create_random_pet(S) ==
  W(Call(S, "create_random_pet", Req("post", "pet", 0, NoName)), "call")

\* lines 526-538
create_random_pet(S, res, resp) ==
  IF res = "raise" THEN W(S, "ValueError")
  ELSE IF res = "none" THEN W(S, "fail")
  ELSE IF resp.body = "badjson" THEN W(S, "JSONDecodeError")
  ELSE IF resp.body = "noid" THEN W(S, "fail")
  ELSE W([S EXCEPT !.L.pets = Append(@, resp.id)], "ok")

\* lines 540-543
call_update_pet(S, pet_id) ==
  W(Call(S, "update_pet_get", Req("get", "pet_id", pet_id, NoName)), "call")

\* the PUT sent whatever the GET returned (a mutant of update_pet_get)
update_pet_get_blind(S, res, resp) ==
  IF res = "raise" THEN W(S, "ValueError")
  ELSE W(Call(S, "update_pet_put", Req("put", "pet", S.f.req.id, NoName)), "call")

\* lines 544-556: the GET has returned, the PUT is sent
update_pet_get(S, res, resp) ==
  IF res = "raise" THEN W(S, "ValueError")
  ELSE IF res = "none" THEN W(S, "fail")
  ELSE IF resp.body = "badjson" THEN W(S, "JSONDecodeError")
  ELSE W(Call(S, "update_pet_put", Req("put", "pet", S.f.req.id, NoName)), "call")

\* lines 557-561
update_pet_put(S, res, resp) ==
  IF res = "raise" THEN W(S, "ValueError")
  ELSE IF res = "none" THEN W(S, "fail")
  ELSE W(S, "ok")

\* lines 563-567
call_delete_pet(S, pet_id) ==
  W(Call(S, "delete_pet", Req("delete", "pet_id", pet_id, NoName)), "call")

\* delete_pet that keeps the identifier after a successful delete
delete_pet_keeps(S, res, resp) ==
  IF res = "raise" THEN W(S, "fail")
  ELSE IF res = "resp" /\ resp.status \in {200, 204}
  THEN W(S, "ok")
  ELSE W(S, "fail")

\* lines 568-584: every exception is caught and turned into False
delete_pet(S, res, resp) ==
  IF res = "raise" THEN W(S, "fail")
  ELSE IF res = "resp" /\ resp.status \in {200, 204}
  THEN W([S EXCEPT !.L.pets = Discard(@, S.f.req.id)], "ok")
  ELSE W(S, "fail")

\* get_pet_by_id, find_pets_by_status, find_pets_by_tags,
\* get_user_by_username, get_order_by_id, get_inventory: the wrappers that
\* return response.json()
ReturnsJson(S, res, resp) ==
  IF res = "raise" THEN W(S, "ValueError")
  ELSE IF res = "none" THEN W(S, "fail")
  ELSE IF resp.body = "badjson" THEN W(S, "JSONDecodeError")
  ELSE W(S, "ok")

\* update_user, login_user, logout_user: the wrappers that only test the
\* response
ReturnsBool(S, res, resp) ==
  IF res = "raise" THEN W(S, "ValueError")
  ELSE IF res = "none" THEN W(S, "fail")
  ELSE W(S, "ok")

\* lines 622-639
call_create_random_user(S, d) ==
  W(Call(S, "create_random_user", Req("post", "user", 0, d.name)), "call")

\* lines 640-646
create_random_user(S, res, resp) ==
  IF res = "raise" THEN W(S, "ValueError")
  ELSE IF res = "none" THEN W(S, "fail")
  ELSE W([S EXCEPT !.L.users = Append(@, S.f.req.name)], "ok")

\* lines 666-677
delete_user(S, res, resp) ==
  IF res = "raise" THEN W(S, "ValueError")
  ELSE IF res = "none" THEN W(S, "fail")
  ELSE W([S EXCEPT !.L.users = Discard(@, S.f.req.name)], "ok")

\* create_random_order without its test for a tracked pet
call_create_random_order_any(S, d) ==
  W(Call(S, "create_random_order",
         Req("post", "order", IF S.L.pets = <<>> THEN 0 ELSE Pick(S.L.pets, d.i),
             NoName)), "call")

\* lines 707-727: the order's petId is kept in the request's id
call_create_random_order(S, d) ==
  IF S.L.pets = <<>> THEN W(S, "fail")
  ELSE W(Call(S, "create_random_order",
              Req("post", "order", Pick(S.L.pets, d.i), NoName)), "call")

\* lines 728-740
create_random_order(S, res, resp) ==
  IF res = "raise" THEN W(S, "ValueError")
  ELSE IF res = "none" THEN W(S, "fail")
  ELSE IF resp.body = "badjson" THEN W(S, "JSONDecodeError")
  ELSE IF resp.body = "noid" THEN W(S, "fail")
  ELSE W([S EXCEPT !.L.orders = Append(@, resp.id)], "ok")

\* lines 752-763
delete_order(S, res, resp) ==
  IF res = "raise" THEN W(S, "ValueError")
  ELSE IF res = "none" THEN W(S, "fail")
  ELSE W([S EXCEPT !.L.orders = Discard(@, S.f.req.id)], "ok")

----------------------------------------------------------------------------
\* The operations, lines 818-954: each op_X is the operation up to its first
\* request (or to its return when it sends none).

NotProtected(s, protected) == SelectSeq(s, LAMBDA x : x \notin protected)

call_get(S, fn, path, id, name) == W(Call(S, fn, Req("get", path, id, name)), "call")

op_create_pet(S, d) == call_create_random_pet(S)

op_update_pet(S, d) ==
  IF S.L.pets # <<>> THEN call_update_pet(S, Pick(S.L.pets, d.i))
  ELSE call_create_random_pet(S)

\* op_delete_pet choosing among all tracked pets
op_delete_pet_any(S, d) ==
  IF S.L.pets = <<>> THEN W(S, "ok")
  ELSE LET deletable_pets == NotProtected(S.L.pets, protected_pet_ids)
       IN  IF deletable_pets = <<>> THEN call_create_random_pet(S)
           ELSE IF Len(deletable_pets) <= min_pets - Cardinality(protected_pet_ids)
           THEN call_create_random_pet(S)
           ELSE call_delete_pet(S, Pick(S.L.pets, d.i))

\* lines 827-851
op_delete_pet(S, d) ==
  IF S.L.pets = <<>> THEN W(S, "ok")
  ELSE LET deletable_pets == NotProtected(S.L.pets, protected_pet_ids)
       IN  IF deletable_pets = <<>> THEN call_create_random_pet(S)
           ELSE IF Len(deletable_pets) <= min_pets - Cardinality(protected_pet_ids)
           THEN call_create_random_pet(S)
           ELSE call_delete_pet(S, Pick(deletable_pets, d.i))

\* op_get_pet returning when no pet is tracked
op_get_pet_returns(S, d) ==
  IF S.L.pets # <<>>
  THEN call_get(S, "get_pet_by_id", "pet_id", Pick(S.L.pets, d.i), NoName)
  ELSE W(S, "ok")

op_get_pet(S, d) ==
  IF S.L.pets # <<>>
  THEN call_get(S, "get_pet_by_id", "pet_id", Pick(S.L.pets, d.i), NoName)
  ELSE call_create_random_pet(S)

op_find_pets_by_status(S, d) ==
  call_get(S, "find_pets_by_status", "findByStatus", 0, d.status)

\* the tags of the query are letters only; one tag list stands for all
op_find_pets_by_tags(S, d) ==
  call_get(S, "find_pets_by_tags", "findByTags", 0, <<"r", "a", "r", "e">>)

op_create_user(S, d) == call_create_random_user(S, d)

op_update_user(S, d) ==
  IF S.L.users # <<>>
  THEN W(Call(S, "update_user", Req("put", "user_name", 0, Pick(S.L.users, d.i))), "call")
  ELSE call_create_random_user(S, d)

\* lines 882-904
op_delete_user(S, d) ==
  IF S.L.users = <<>> THEN W(S, "ok")
  ELSE LET protected_usernames == {UserN(i) : i \in protected_user_ids}
           deletable_users == NotProtected(S.L.users, protected_usernames)
       IN  IF deletable_users = <<>> THEN call_create_random_user(S, d)
           ELSE IF Len(deletable_users) <= min_users - Cardinality(protected_user_ids)
           THEN call_create_random_user(S, d)
           ELSE W(Call(S, "delete_user",
                       Req("delete", "user_name", 0, Pick(deletable_users, d.i))), "call")

op_get_user(S, d) ==
  IF S.L.users # <<>>
  THEN call_get(S, "get_user_by_username", "user_name", 0, Pick(S.L.users, d.i))
  ELSE call_create_random_user(S, d)

op_login_user(S, d) ==
  IF S.L.users # <<>>
  THEN call_get(S, "login_user", "login", 0, Pick(S.L.users, d.i))
  ELSE call_create_random_user(S, d)

op_logout_user(S, d) == call_get(S, "logout_user", "logout", 0, NoName)

op_create_order(S, d) == call_create_random_order(S, d)

op_get_order(S, d) ==
  IF S.L.orders # <<>>
  THEN call_get(S, "get_order_by_id", "order_id", Pick(S.L.orders, d.i), NoName)
  ELSE call_create_random_order(S, d)

\* op_delete_order with `<` for `<=` in its threshold test
op_delete_order_lt(S, d) ==
  IF S.L.orders = <<>> THEN W(S, "ok")
  ELSE LET deletable_orders == NotProtected(S.L.orders, protected_order_ids)
       IN  IF deletable_orders = <<>> THEN call_create_random_order(S, d)
           ELSE IF Len(deletable_orders) < min_orders - Cardinality(protected_order_ids)
           THEN call_create_random_order(S, d)
           ELSE W(Call(S, "delete_order",
                       Req("delete", "order_id", Pick(deletable_orders, d.i), NoName)),
                  "call")

\* lines 930-951
op_delete_order(S, d) ==
  IF S.L.orders = <<>> THEN W(S, "ok")
  ELSE LET deletable_orders == NotProtected(S.L.orders, protected_order_ids)
       IN  IF deletable_orders = <<>> THEN call_create_random_order(S, d)
           ELSE IF Len(deletable_orders) <= min_orders - Cardinality(protected_order_ids)
           THEN call_create_random_order(S, d)
           ELSE W(Call(S, "delete_order",
                       Req("delete", "order_id", Pick(deletable_orders, d.i), NoName)),
                  "call")

op_get_inventory(S, d) == call_get(S, "get_inventory", "inventory", 0, NoName)

\* lines 851-856: what op_delete_pet does with delete_pet's result
op_delete_pet_result(S, o) ==
  IF o = "ok" THEN Return(S, "ok")
  ELSE Return([S EXCEPT !.L.pets = Discard(@, S.f.req.id)], "ok")

----------------------------------------------------------------------------
\* ensure_minimum_entities, lines 485-506.  phase is the loop that runs,
\* k the iterations it has left, the current one included.

InPhase(S, phase, k) == [S EXCEPT !.f.phase = phase, !.f.k = k]

\* lines 501-506
ensure_orders(S, d) ==
  LET order_count_to_create == Max0(min_orders - Len(S.L.orders))
  IN  IF order_count_to_create > 0 /\ Len(S.L.pets) > 0
      THEN call_create_random_order(InPhase(S, "orders", order_count_to_create), d).S
      ELSE Return(S, "ok")

\* ensure_users with one create too many
ensure_users_off_by_one(S, d) ==
  LET user_count_to_create == Max0(min_users - Len(S.L.users) + 1)
  IN  IF user_count_to_create > 0
      THEN call_create_random_user(InPhase(S, "users", user_count_to_create), d).S
      ELSE ensure_orders(S, d)

\* lines 494-499
ensure_users(S, d) ==
  LET user_count_to_create == Max0(min_users - Len(S.L.users))
  IN  IF user_count_to_create > 0
      THEN call_create_random_user(InPhase(S, "users", user_count_to_create), d).S
      ELSE ensure_orders(S, d)

\* ensure_minimum_entities with `>= 0` for `> 0` in its first test
ensure_minimum_entities_ge(S, d) ==
  LET pet_count_to_create == Max0(min_pets - Len(S.L.pets))
  IN  IF pet_count_to_create >= 0
      THEN call_create_random_pet(InPhase(S, "pets", pet_count_to_create)).S
      ELSE ensure_users(S, d)

\* lines 487-492
ensure_minimum_entities(S, d) ==
  LET pet_count_to_create == Max0(min_pets - Len(S.L.pets))
  IN  IF pet_count_to_create > 0
      THEN call_create_random_pet(InPhase(S, "pets", pet_count_to_create)).S
      ELSE ensure_users(S, d)

\* ensure_loop with loops that run one iteration short
ensure_loop_stops_early(S, d) ==
  LET k == S.f.k - 2
  IN  CASE S.f.phase = "pets" ->
             IF k > 0 THEN call_create_random_pet(InPhase(S, "pets", k)).S
             ELSE ensure_users(InPhase(S, "pets", 0), d)
        [] S.f.phase = "users" ->
             IF k > 0 THEN call_create_random_user(InPhase(S, "users", k), d).S
             ELSE ensure_orders(InPhase(S, "users", 0), d)
        [] OTHER ->
             IF k > 0 /\ S.L.pets # <<>>
             THEN call_create_random_order(InPhase(S, "orders", k), d).S
             ELSE Return(InPhase(S, "orders", 0), "ok")

\* a create of the running loop has returned: the next iteration, or the
\* next loop.  create_random_order sends nothing while no pet is tracked.
ensure_loop(S, d) ==
  LET k == S.f.k - 1
  IN  CASE S.f.phase = "pets" ->
             IF k > 0 THEN call_create_random_pet(InPhase(S, "pets", k)).S
             ELSE ensure_users(InPhase(S, "pets", 0), d)
        [] S.f.phase = "users" ->
             IF k > 0 THEN call_create_random_user(InPhase(S, "users", k), d).S
             ELSE ensure_orders(InPhase(S, "users", 0), d)
        [] OTHER ->
             IF k > 0 /\ S.L.pets # <<>>
             THEN call_create_random_order(InPhase(S, "orders", k), d).S
             ELSE Return(InPhase(S, "orders", 0), "ok")

----------------------------------------------------------------------------
\* refresh_state, lines 433-483.  phase is the request that is in flight
\* ("inventory", "status", "orders", "users"), k its index.

RECURSIVE AppendNew_all(_, _)
\* the loop without its membership test
AppendNew_all(s, ids) ==
  IF ids = {} THEN s
  ELSE LET x == CHOOSE y \in ids : \A z \in ids : y <= z
       IN  AppendNew_all(Append(s, x), ids \ {x})

RECURSIVE AppendNew(_, _)
\* `for pet in pets: if pet["id"] not in self.pet_ids: append`, the pets of
\* the answer taken in ascending order of their id
AppendNew(s, ids) ==
  IF ids = {} THEN s
  ELSE LET x == CHOOSE y \in ids : \A z \in ids : y <= z
       IN  AppendNew(IF Contains(s, x) THEN s ELSE Append(s, x), ids \ {x})

refresh_call(S, phase, k) ==
  LET r == CASE phase = "inventory" -> Req("get", "inventory", 0, NoName)
             [] phase = "status"    -> Req("get", "findByStatus", 0, StatusList[k])
             [] phase = "orders"    -> Req("get", "order_id", k, NoName)
             [] OTHER               -> Req("get", "user_name", 0, UserN(k))
  IN  W(Call(InPhase(S, phase, k), "refresh", r), "call")

\* lines 433-436
call_refresh_state(S) == refresh_call(S, "inventory", 1)

\* the request of refresh_state that follows the one in flight
refresh_next(S) ==
  CASE S.f.phase = "inventory" -> refresh_call(S, "orders", 1)
    [] S.f.phase = "status" ->
         IF S.f.k < Len(StatusList) THEN refresh_call(S, "status", S.f.k + 1)
         ELSE refresh_call(S, "orders", 1)
    [] S.f.phase = "orders" ->
         IF S.f.k < ProbeMax THEN refresh_call(S, "orders", S.f.k + 1)
         ELSE refresh_call(S, "users", 1)
    [] OTHER ->
         IF S.f.k < ProbeMax THEN refresh_call(S, "users", S.f.k + 1)
         ELSE W(S, "ok")

\* lines 437-472: what refresh_state does with the answer to its request
refresh_state(S, res, resp) ==
  IF res = "raise" THEN W(S, "ValueError")
  ELSE IF res = "none" THEN refresh_next(S)
  ELSE IF resp.body = "badjson" THEN W(S, "JSONDecodeError")
  ELSE CASE S.f.phase = "inventory" -> refresh_call(S, "status", 1)
         [] S.f.phase = "status" ->
              refresh_next([S EXCEPT !.L.pets =
                              IF resp.body = "json" THEN AppendNew(@, resp.ids) ELSE @])
         [] S.f.phase = "orders" ->
              refresh_next([S EXCEPT !.L.orders =
                              IF resp.body = "json" /\ ~Contains(@, resp.id)
                              THEN Append(@, resp.id) ELSE @])
         [] OTHER ->
              refresh_next([S EXCEPT !.L.users =
                              IF resp.body = "json" /\ ~Contains(@, resp.name)
                              THEN Append(@, resp.name) ELSE @])

----------------------------------------------------------------------------
\* From the return of _make_request to the next request or to the return
\* of the routine.

\* the wrapper whose request was in flight takes _make_request's result
Wrapper(S, res, resp) ==
  CASE S.f.fn = "refresh"             -> refresh_state(S, res, resp)
    [] S.f.fn = "create_random_pet"   -> create_random_pet(S, res, resp)
    [] S.f.fn = "update_pet_get"      -> update_pet_get(S, res, resp)
    [] S.f.fn = "update_pet_put"      -> update_pet_put(S, res, resp)
    [] S.f.fn = "delete_pet"          -> delete_pet(S, res, resp)
    [] S.f.fn = "create_random_user"  -> create_random_user(S, res, resp)
    [] S.f.fn = "delete_user"         -> delete_user(S, res, resp)
    [] S.f.fn = "create_random_order" -> create_random_order(S, res, resp)
    [] S.f.fn = "delete_order"        -> delete_order(S, res, resp)
    [] S.f.fn \in {"update_user", "login_user", "logout_user"}
                                      -> ReturnsBool(S, res, resp)
    [] OTHER                          -> ReturnsJson(S, res, resp)

\* the routine takes the wrapper's result w: no routine catches an exception
Continue(w, d) ==
  IF w.o = "call" THEN w.S
  ELSE IF w.o \notin {"ok", "fail"} THEN Raise(w.S, w.o)
  ELSE CASE w.S.f.op = "ensure" -> ensure_loop(w.S, d)
         [] w.S.f.op = "op_delete_pet" /\ w.S.f.fn = "delete_pet"
                                  -> op_delete_pet_result(w.S, w.o)
         [] OTHER -> Return(w.S, w.o)

\* lines 365-420, when the 404 clean-up finds nothing to remove
MakeRequestReturns(S, resp, d) ==
  Continue(Wrapper(S, MakeRequestResult(S.f.req, resp), resp), d)

\* lines 394-415 up to the removal: the handler has found the entry to remove
MakeRequestCleans(S, target) == [S EXCEPT !.f.at = "cleanup", !.f.rm = target]

\* the removal of the 404 handler and the return of None: the pet branch
\* removes from the list an entry it took from a copy of it (lines 397-399),
\* the user and order branches test the list first (lines 406, 413)
CleanupRemoves(S, d) ==
  LET rm   == S.f.rm
      none == Resp("other", 0, "badjson", 0, NoName, {})
  IN  CASE rm.kind = "pet" ->
             IF Contains(S.L.pets, rm.id)
             THEN Continue(Wrapper([S EXCEPT !.L.pets = Remove(@, rm.id)],
                                   "none", none), d)
             ELSE Continue(Wrapper(S, "raise", none), d)
        [] rm.kind = "user" ->
             Continue(Wrapper([S EXCEPT !.L.users = Discard(@, rm.name)],
                              "none", none), d)
        [] OTHER ->
             Continue(Wrapper([S EXCEPT !.L.orders = Discard(@, rm.id)],
                              "none", none), d)

----------------------------------------------------------------------------
\* simulate_random_operation, lines 775-814.

operations ==
  <<"op_create_pet", "op_update_pet", "op_delete_pet", "op_get_pet",
    "op_find_pets_by_status", "op_find_pets_by_tags",
    "op_create_user", "op_update_user", "op_delete_user", "op_get_user",
    "op_login_user", "op_logout_user",
    "op_create_order", "op_get_order", "op_delete_order", "op_get_inventory">>

\* the table without the duplicated entries (a mutant of
\* weighted_operations)
weighted_operations_flat == operations

weighted_operations ==
  operations \o <<"op_get_pet", "op_get_pet",
                  "op_find_pets_by_status", "op_find_pets_by_status",
                  "op_get_inventory", "op_get_inventory">>

\* operation()
Operation(op, S, d) ==
  CASE op = "op_create_pet"          -> op_create_pet(S, d)
    [] op = "op_update_pet"          -> op_update_pet(S, d)
    [] op = "op_delete_pet"          -> op_delete_pet(S, d)
    [] op = "op_get_pet"             -> op_get_pet(S, d)
    [] op = "op_find_pets_by_status" -> op_find_pets_by_status(S, d)
    [] op = "op_find_pets_by_tags"   -> op_find_pets_by_tags(S, d)
    [] op = "op_create_user"         -> op_create_user(S, d)
    [] op = "op_update_user"         -> op_update_user(S, d)
    [] op = "op_delete_user"         -> op_delete_user(S, d)
    [] op = "op_get_user"            -> op_get_user(S, d)
    [] op = "op_login_user"          -> op_login_user(S, d)
    [] op = "op_logout_user"         -> op_logout_user(S, d)
    [] op = "op_create_order"        -> op_create_order(S, d)
    [] op = "op_get_order"           -> op_get_order(S, d)
    [] op = "op_delete_order"        -> op_delete_order(S, d)
    [] OTHER                         -> op_get_inventory(S, d)

----------------------------------------------------------------------------
\* Authentication of the requests, lines 235-249, 315-328, 344-355.

NoHeaders == [h \in {} |-> ""]

\* self.api_key, self.jwt_tokens after __init__ has gone through
\* jwt_token_files, and what the last request was sent with
Auth(api_key, files, tokens) ==
  [api_key |-> api_key, jwt_token_files |-> files, jwt_tokens |-> tokens,
   method |-> "none", headers |-> NoHeaders]

\* the simulator was given no token file
ApiKeyOnly == Auth("key", <<>>, <<>>)

\* _get_auth_header with the static key whatever was loaded
get_auth_header_key(a, i) == [h \in {"api-key-petstore"} |-> a.api_key]

\* _get_auth_header, lines 315-328; i is the index random.choice draws
get_auth_header(a, i) ==
  IF a.jwt_tokens # <<>>
  THEN [h \in {"api-key-petstore"} |-> a.jwt_tokens[i]]
  ELSE [h \in {"api-key-petstore"} |-> a.api_key]

\* _make_request, lines 344-355: the headers of the request, from the
\* headers the caller passed
request_headers(a, passed, i) ==
  get_auth_header(a, i) @@
  [h \in {"User-Agent", "Accept", "Content-Type"} |->
     IF h = "User-Agent" THEN "agent" ELSE "application/json"] @@
  passed

----------------------------------------------------------------------------
\* The token issuer, src/petstore-api-keys/create_customer_token.py.

NoIssuer == [at |-> "off"]

\* no APITrafficSimulator is constructed
NoMetrics == [at |-> "off"]

\* class CustomerType: the values of its members
CustomerType == {"free", "standard", "premium"}

NoMetadata == [k \in {} |-> ""]

\* Customer.__init__: additional_metadata is any dictionary
Customer(username, customer_type, additional_metadata) ==
  [username |-> username, customer_type |-> customer_type,
   email |-> "mail", company |-> "None", subscription_tier |-> "None",
   additional_metadata |-> additional_metadata]

\* Customer.to_dict: the keys of additional_metadata are spread last, so
\* they replace the fixed keys of the same name
to_dict(c) ==
  c.additional_metadata @@
  [username |-> c.username, customer_type |-> c.customer_type, email |-> c.email,
   company |-> c.company, subscription_tier |-> c.subscription_tier]

\* int(time.time()) at tick t of the wall clock
IntTime(t) == t \div TicksPerSecond

NoPayload == [sub |-> "none"]

\* add_customer: the registry is keyed by username
add_customer(customers, c) == (c.username :> c) @@ customers

\* generate_token with a constant sub claim
generate_token_sub(customers, username, expiration_seconds, t1, t2, encodes) ==
  IF username \notin DOMAIN customers
  THEN [kind |-> "ValueError", payload |-> NoPayload]
  ELSE LET customer == customers[username]
           payload  == [iss |-> "issuer", aud |-> "audience", sub |-> "customer",
                        exp |-> IntTime(t1) + expiration_seconds,
                        iat |-> IntTime(t2),
                        username |-> username,
                        customer_type |-> customer.customer_type,
                        customer |-> to_dict(customer)]
       IN  IF encodes THEN [kind |-> "token", payload |-> payload]
           ELSE [kind |-> "exit1", payload |-> NoPayload]

\* generate_token, lines 128-177: t1 and t2 are the wall clock at the two
\* time.time() calls, encodes tells whether jwt.encode accepts the key.  The
\* token is the signed payload; the result is the token, the ValueError or
\* sys.exit(1).
generate_token(customers, username, expiration_seconds, t1, t2, encodes) ==
  IF username \notin DOMAIN customers
  THEN [kind |-> "ValueError", payload |-> NoPayload]
  ELSE LET customer == customers[username]
           payload  == [iss |-> "issuer", aud |-> "audience", sub |-> username,
                        exp |-> IntTime(t1) + expiration_seconds,
                        iat |-> IntTime(t2),
                        username |-> username,
                        customer_type |-> customer.customer_type,
                        customer |-> to_dict(customer)]
       IN  IF encodes THEN [kind |-> "token", payload |-> payload]
           ELSE [kind |-> "exit1", payload |-> NoPayload]

----------------------------------------------------------------------------
\* The threads.  Thread Main constructs the simulator and runs
\* run_simulation; the frames of the other threads are "off" in the
\* sequential run.

Main == 0

Tracked == Lists(pet_ids, usernames, order_ids)

Cur(t) == [L |-> Tracked, f |-> pc[t]]

SetState(t, S) ==
  /\ pet_ids' = S.L.pets
  /\ usernames' = S.L.users
  /\ order_ids' = S.L.orders
  /\ pc' = [pc EXCEPT ![t] = S.f]

\* what no step of the driver changes
Config == <<min_pets, min_users, min_orders, universe, remote, issuer, auth,
            metrics>>

AllDraws == {Draw(i, n, st) : i \in PickRange, n \in universe.new, st \in pet_statuses}

\* the draws that can matter to the step that follows a response
StepDraws(f) ==
  IF f.op = "ensure"
  THEN {Draw(i, n, StatusList[1]) : i \in PickRange, n \in universe.new}
  ELSE {NoDraw}

\* a thread whose routine let an exception through: run_simulation catches
\* KeyboardInterrupt only (lines 981-995), so the exception leaves it and no
\* report is made; a worker of the pool catches it and returns (lines
\* 1019-1026)
Propagate(f) ==
  [At(IF f.caller = "worker" THEN "stopped" ELSE "crashed")
     EXCEPT !.exc = f.exc, !.op = f.op, !.caller = f.caller]

\* __init__ calls initialize(), which calls refresh_state(), lines 309, 427
Initialize(t) ==
  /\ pc[t].at = "new"
  /\ SetState(t, call_refresh_state(Enter(Tracked, "refresh", "init")).S)
  /\ UNCHANGED <<Config, operation_count>>

\* the machine state of thread t after the response resp to its request
Received(t, resp, d) ==
  LET target == CleanupTarget(pc[t].req, Tracked)
  IN  IF Is404(resp) /\ target.kind # "none"
      THEN MakeRequestCleans(Cur(t), target)
      ELSE MakeRequestReturns(Cur(t), resp, d)

\* the response to the request in flight arrives, lines 365-420
Receive(t) ==
  /\ pc[t].at = "wait"
  /\ \E resp \in Responses(pc[t].req, Tracked), d \in StepDraws(pc[t]) :
       SetState(t, Received(t, resp, d))
  /\ UNCHANGED <<Config, operation_count>>

\* the 404 handler removes the entry it found, lines 399, 407, 414
Cleanup(t) ==
  /\ pc[t].at = "cleanup"
  /\ \E d \in StepDraws(pc[t]) : SetState(t, CleanupRemoves(Cur(t), d))
  /\ UNCHANGED <<Config, operation_count>>

\* initialize(): refresh_state has returned, ensure_minimum_entities
\* starts, lines 427-430
AfterRefresh(t) ==
  /\ pc[t].at = "ret" /\ pc[t].op = "refresh"
  /\ IF pc[t].exc # "none"
     THEN /\ pc' = [pc EXCEPT ![t] = Propagate(pc[t])]
          /\ UNCHANGED <<pet_ids, usernames, order_ids>>
     ELSE \E d \in StepDraws([At("run") EXCEPT !.op = "ensure"]) :
            SetState(t, ensure_minimum_entities(Enter(Tracked, "ensure", "init"), d))
  /\ UNCHANGED <<Config, operation_count>>

\* ensure_minimum_entities has returned: to initialize() and from there to
\* the loop of run_simulation (lines 431, 975-982), or to the loop that
\* called it (lines 989-992)
AfterEnsure(t) ==
  /\ pc[t].at = "ret" /\ pc[t].op = "ensure"
  /\ pc' = [pc EXCEPT ![t] = IF pc[t].exc # "none" THEN Propagate(pc[t])
                              ELSE IF pc[t].caller = "super" THEN At("sleep")
                              ELSE At("idle")]
  /\ UNCHANGED <<pet_ids, usernames, order_ids, Config, operation_count>>

\* simulate_random_operation, lines 812-814: one entry of the table is
\* picked and called
simulate_random_operation(t, caller) ==
  \E i \in 1..Len(weighted_operations), d \in AllDraws :
    LET op == weighted_operations[i]
        S  == Enter(Tracked, op, caller)
    IN  SetState(t, Continue(Operation(op, S, d), d))

\* `while datetime.now() < end_time:` holds and simulate_random_operation
\* picks an operation, lines 982-984
SimulateRandomOperation(t) ==
  /\ pc[t].at = "idle"
  /\ operation_count[t] < MaxOps
  /\ simulate_random_operation(t, "loop")
  /\ UNCHANGED <<Config, operation_count>>

\* ensure_minimum_entities called after every operation (a mutant of
\* AfterOperation)
AfterOperation_each(t) ==
  /\ pc[t].at = "ret" /\ pc[t].op \notin {"refresh", "ensure"}
  /\ IF pc[t].exc # "none"
     THEN /\ pc' = [pc EXCEPT ![t] = Propagate(pc[t])]
          /\ UNCHANGED <<pet_ids, usernames, order_ids, operation_count>>
     ELSE /\ operation_count' = [operation_count EXCEPT ![t] = @ + 1]
          /\ \E d \in StepDraws([At("run") EXCEPT !.op = "ensure"]) :
               SetState(t, ensure_minimum_entities(
                             Enter(Tracked, "ensure", "loop"), d))
  /\ UNCHANGED Config

\* the operation has returned to the loop of run_simulation, lines 985-992
AfterOperation(t) ==
  /\ pc[t].at = "ret" /\ pc[t].op \notin {"refresh", "ensure"}
  /\ IF pc[t].exc # "none"
     THEN /\ pc' = [pc EXCEPT ![t] = Propagate(pc[t])]
          /\ UNCHANGED <<pet_ids, usernames, order_ids, operation_count>>
     ELSE /\ operation_count' = [operation_count EXCEPT ![t] = @ + 1]
          /\ IF operation_count'[t] % EnsureEvery = 0
             THEN \E d \in StepDraws([At("run") EXCEPT !.op = "ensure"]) :
                    SetState(t, ensure_minimum_entities(
                                  Enter(Tracked, "ensure", "loop"), d))
             ELSE /\ pc' = [pc EXCEPT ![t] = At("idle")]
                  /\ UNCHANGED <<pet_ids, usernames, order_ids>>
  /\ UNCHANGED Config

\* the deadline has passed: the loop ends and generate_summary_report runs,
\* lines 982, 997-998
Deadline(t) ==
  /\ pc[t].at = "idle"
  /\ pc' = [pc EXCEPT ![t] = At("report")]
  /\ UNCHANGED <<pet_ids, usernames, order_ids, Config, operation_count>>

\* The configurations of the model: the minimums given on the command line.
Configs == {<<6, 6, 6>>, <<2, 1, 1>>}

Threads == {Main}

Init ==
  /\ pet_ids = <<>> /\ usernames = <<>> /\ order_ids = <<>>
  /\ \E c \in Configs : min_pets = c[1] /\ min_users = c[2] /\ min_orders = c[3]
  /\ pc = [t \in Threads |-> At("new")]
  /\ operation_count = [t \in Threads |-> 0]
  /\ universe = BigUniverse
  /\ remote = Unreliable
  /\ issuer = NoIssuer
  /\ auth = ApiKeyOnly
  /\ metrics = NoMetrics

Next ==
  \/ Initialize(Main)
  \/ Receive(Main)
  \/ Cleanup(Main)
  \/ AfterRefresh(Main)
  \/ AfterEnsure(Main)
  \/ SimulateRandomOperation(Main)
  \/ AfterOperation(Main)
  \/ Deadline(Main)

Spec == Init /\ [][Next]_vars

----------------------------------------------------------------------------
\* The table of simulate_random_operation.

\* the slots of the table that hold operation op
Slots(op) == {i \in 1..Len(weighted_operations) : weighted_operations[i] = op}

\* the operations that the table holds three times
TripledOps == {"op_get_pet", "op_find_pets_by_status", "op_get_inventory"}

\* C32: the table has 22 slots over 16 operations; op_get_pet,
\* op_find_pets_by_status and op_get_inventory hold 3 slots each and every
\* other operation 1 slot, so that under the uniform choice of a slot each
\* of the three is 3 times as likely as any other; and the operation that a
\* tick of the loop has invoked is one entry of the table, running in the
\* one frame of the thread.
C32_WeightedTable ==
  /\ Len(weighted_operations) = 22
  /\ Cardinality(Elems(operations)) = 16
  /\ Elems(weighted_operations) = Elems(operations)
  /\ TripledOps \subseteq Elems(operations)
  /\ \A op \in Elems(operations) :
       Cardinality(Slots(op)) = IF op \in TripledOps THEN 3 ELSE 1
  /\ \A a \in TripledOps, b \in Elems(operations) \ TripledOps :
       Cardinality(Slots(a)) = 3 * Cardinality(Slots(b))
  /\ (pc[Main].caller = "loop" /\ pc[Main].op \notin {"ensure", "refresh"}) =>
        Slots(pc[Main].op) # {}

\* a tick has picked op_get_inventory, one of the tripled entries, and its
\* request is in flight
C32_Witness ==
  /\ pc[Main].caller = "loop" /\ pc[Main].op = "op_get_inventory"
  /\ pc[Main].at = "wait"
  /\ pc[Main].req.path = "inventory"

----------------------------------------------------------------------------
\* Termination of run_simulation.  Every request is sent with a timeout
\* (lines 357-358), so a request in flight returns or fails; time.sleep returns;
\* the clock passes end_time.  Hence a step of the run that can be taken is
\* eventually taken.
SpecFair == Spec /\ WF_vars(Next)

\* C26 as stated: run_simulation terminates with the summary report: once
\* the loop of run_simulation is entered, the loop ends at the deadline and
\* generate_summary_report is called.
C26_AsStated == (pc[Main].at = "idle") ~> (pc[Main].at = "report")

----------------------------------------------------------------------------
\* The loop of run_simulation around a multiple of 50 operations: the run
\* has completed 49 or 99 operations.

InitEvery ==
  /\ pet_ids \in {<<1>>, <<1, 6>>}
  /\ usernames = <<NameA>>
  /\ order_ids \in {<<>>, <<1>>}
  /\ \E c \in Configs : min_pets = c[1] /\ min_users = c[2] /\ min_orders = c[3]
  /\ pc = [t \in Threads |-> At("idle")]
  /\ operation_count \in {[t \in Threads |-> k * EnsureEvery - 1] : k \in 1..2}
  /\ universe = BigUniverse
  /\ remote = Unreliable
  /\ issuer = NoIssuer
  /\ auth = ApiKeyOnly
  /\ metrics = NoMetrics

\* `while datetime.now() < end_time:` holds and simulate_random_operation
\* picks an operation, lines 982-984; the runs of the model end one
\* operation after a multiple of 50
LoopOperation(t) ==
  /\ pc[t].at = "idle"
  /\ (operation_count[t] + 1) % EnsureEvery <= 1
  /\ simulate_random_operation(t, "loop")
  /\ UNCHANGED <<Config, operation_count>>

NextEvery ==
  \/ LoopOperation(Main)
  \/ Receive(Main)
  \/ Cleanup(Main)
  \/ AfterOperation(Main)
  \/ AfterEnsure(Main)
  \/ Deadline(Main)

SpecEvery == InitEvery /\ [][NextEvery]_vars

\* the main thread is inside the ensure_minimum_entities called by the loop
InLoopEnsure == pc[Main].op = "ensure" /\ pc[Main].caller = "loop"

\* C27: in run_simulation ensure_minimum_entities is entered exactly by the
\* steps that complete an operation and bring operation_count to a multiple
\* of 50, and by no other step of the loop; and an operation starts only
\* when the thread is between operations, with no frame open, so that two
\* operations never overlap.
C27_EveryFiftieth ==
  [][ /\ (~InLoopEnsure /\ InLoopEnsure')
         <=> (/\ operation_count'[Main] = operation_count[Main] + 1
              /\ operation_count'[Main] % EnsureEvery = 0)
      /\ (pc'[Main].op \in Elems(operations) /\ pc[Main].op # pc'[Main].op)
         => (pc[Main].at = "idle" /\ pc[Main].op = "none") ]_vars

\* the 50th operation has completed and the ensure_minimum_entities that
\* follows it has a create request in flight
C27_Witness ==
  /\ operation_count[Main] = EnsureEvery
  /\ InLoopEnsure /\ pc[Main].at = "wait"
  /\ pc[Main].req.m = "post"

----------------------------------------------------------------------------
\* initialize() with the default minimums (line 216) against a working
\* store that is empty.

DefaultMinimums == <<10, 5, 3>>

StoreNames == { <<"u", "s", "e", "r", "_", c>> : c \in {"a", "b", "c", "d", "e"} }

StoreUniverse == Universe(1..11, 1..4, {}, StoreNames)

InitEmptyStore ==
  /\ pet_ids = <<>> /\ usernames = <<>> /\ order_ids = <<>>
  /\ min_pets = DefaultMinimums[1]
  /\ min_users = DefaultMinimums[2]
  /\ min_orders = DefaultMinimums[3]
  /\ pc = [t \in Threads |-> At("new")]
  /\ operation_count = [t \in Threads |-> 0]
  /\ universe = StoreUniverse
  /\ remote = WorkingStore
  /\ issuer = NoIssuer
  /\ auth = ApiKeyOnly
  /\ metrics = NoMetrics

NextInitialize ==
  \/ Initialize(Main)
  \/ Receive(Main)
  \/ AfterRefresh(Main)
  \/ AfterEnsure(Main)

SpecInitialize == InitEmptyStore /\ [][NextInitialize]_vars

----------------------------------------------------------------------------
\* run_parallel_simulation, lines 1000-1043: the workers of the pool loop
\* over simulate_random_operation, the main thread over sleep and
\* ensure_minimum_entities.  No lock guards the tracked lists, so the steps
\* of the threads interleave freely.

Workers == {1, 2}

ParUniverse == Universe({1, 6}, {6}, {UserN(1)}, {NameA})

ConfigsPar == {<<0, 0, 0>>}

RECURSIVE ListsOver(_)
\* the lists of distinct elements of a set
ListsOver(U) ==
  {<<>>} \cup UNION { { <<x>> \o s : s \in ListsOver(U \ {x}) } : x \in U }

\* the simulator is constructed and run_parallel_simulation has started its
\* workers: initialize has found any pets and users of the universe, and no
\* order, and had nothing to create
InitPar ==
  /\ universe = ParUniverse
  /\ pet_ids \in ListsOver(universe.pets)
  /\ usernames \in ListsOver(universe.known)
  /\ order_ids = <<>>
  /\ \E c \in ConfigsPar : min_pets = c[1] /\ min_users = c[2] /\ min_orders = c[3]
  /\ pc = [t \in {Main} \cup Workers |-> IF t = Main THEN At("sleep") ELSE At("idle")]
  /\ operation_count = [t \in {Main} \cup Workers |-> 0]
  /\ remote = Unreliable
  /\ issuer = NoIssuer
  /\ auth = ApiKeyOnly
  /\ metrics = NoMetrics

\* worker(): the loop test holds and an operation is picked, lines 1020-1021
WorkerOperation(t) ==
  /\ pc[t].at = "idle"
  /\ operation_count[t] < MaxWorkerOps
  /\ simulate_random_operation(t, "worker")
  /\ UNCHANGED <<Config, operation_count>>

\* worker(): the operation has returned, or has raised into the worker's
\* `except Exception`, which ends the worker, lines 1022-1026
WorkerAfterOperation(t) ==
  /\ pc[t].at = "ret" /\ pc[t].caller = "worker"
  /\ IF pc[t].exc # "none"
     THEN /\ pc' = [pc EXCEPT ![t] = Propagate(pc[t])]
          /\ UNCHANGED operation_count
     ELSE /\ pc' = [pc EXCEPT ![t] = At("idle")]
          /\ operation_count' = [operation_count EXCEPT ![t] = @ + 1]
  /\ UNCHANGED <<pet_ids, usernames, order_ids, Config>>

\* worker(): the deadline has passed, line 1020
WorkerDeadline(t) ==
  /\ pc[t].at = "idle"
  /\ pc' = [pc EXCEPT ![t] = At("stopped")]
  /\ UNCHANGED <<pet_ids, usernames, order_ids, Config, operation_count>>

\* the supervisory loop: time.sleep(10) is over and
\* ensure_minimum_entities runs, lines 1034-1036
SupervisorEnsure(t) ==
  /\ pc[t].at = "sleep"
  /\ operation_count[t] < MaxSupervisorRuns
  /\ operation_count' = [operation_count EXCEPT ![t] = @ + 1]
  /\ \E d \in StepDraws([At("run") EXCEPT !.op = "ensure"]) :
       SetState(t, ensure_minimum_entities(Enter(Tracked, "ensure", "super"), d))
  /\ UNCHANGED Config

\* the supervisory loop ends at the deadline and the `with` block waits for
\* the workers, lines 1029-1034
SupervisorDeadline(t) ==
  /\ pc[t].at = "sleep"
  /\ pc' = [pc EXCEPT ![t] = At("join")]
  /\ UNCHANGED <<pet_ids, usernames, order_ids, Config, operation_count>>

\* every worker has returned: the counts are summed and the report is
\* generated, lines 1041-1043
Join(t) ==
  /\ pc[t].at = "join"
  /\ \A w \in Workers : pc[w].at = "stopped"
  /\ pc' = [pc EXCEPT ![t] = At("report")]
  /\ UNCHANGED <<pet_ids, usernames, order_ids, Config, operation_count>>

NextPar ==
  \/ \E w \in Workers :
       \/ WorkerOperation(w)
       \/ WorkerAfterOperation(w)
       \/ WorkerDeadline(w)
  \/ \E t \in {Main} \cup Workers :
       \/ Receive(t)
       \/ Cleanup(t)
  \/ SupervisorEnsure(Main)
  \/ AfterEnsure(Main)
  \/ SupervisorDeadline(Main)
  \/ Join(Main)

SpecPar == InitPar /\ [][NextPar]_vars

----------------------------------------------------------------------------
\* ensure_minimum_entities run twice in succession on any tracker, as the
\* supervisory loop of run_parallel_simulation does (lines 1034-1036):
\* every list of distinct identifiers of the universes is a start.

ConfigsEnsure == {<<2, 1, 1>>, <<0, 2, 2>>, <<3, 2, 1>>}

\* the number of requests with method m and path p in a log
Sent(log, m, p) == Cardinality({i \in 1..Len(log) : log[i] = <<m, p>>})

\* every create request of the run f added a tracked entity
AllCreated(f, L) ==
  /\ Len(L.pets)   = Len(f.pre.pets)   + Sent(f.log, "post", "pet")
  /\ Len(L.users)  = Len(f.pre.users)  + Sent(f.log, "post", "user")
  /\ Len(L.orders) = Len(f.pre.orders) + Sent(f.log, "post", "order")

InitEnsure ==
  /\ pet_ids \in ListsOver(PetPool)
  /\ usernames \in ListsOver(NamePool)
  /\ order_ids \in ListsOver(OrderPool)
  /\ \E c \in ConfigsEnsure :
       min_pets = c[1] /\ min_users = c[2] /\ min_orders = c[3]
  /\ pc = [t \in Threads |-> At("sleep")]
  /\ operation_count = [t \in Threads |-> 0]
  /\ universe = BigUniverse
  /\ remote = Unreliable
  /\ issuer = NoIssuer
  /\ auth = ApiKeyOnly
  /\ metrics = NoMetrics

\* time.sleep(10) is over and ensure_minimum_entities runs, lines 1035-1036
EnsureFirst(t) ==
  /\ pc[t].at = "sleep"
  /\ \E d \in StepDraws([At("run") EXCEPT !.op = "ensure"]) :
       SetState(t, ensure_minimum_entities(Enter(Tracked, "ensure", "first"), d))
  /\ UNCHANGED <<Config, operation_count>>

\* the next turn of the supervisory loop, with no operation in between
EnsureAgain(t) ==
  /\ pc[t].at = "ret" /\ pc[t].op = "ensure" /\ pc[t].caller = "first"
  /\ pc[t].exc = "none"
  /\ \E d \in StepDraws([At("run") EXCEPT !.op = "ensure"]) :
       LET S == Enter(Tracked, "ensure", "second")
           n == IF ~AllCreated(pc[t], Tracked) THEN "failed"
                ELSE IF pc[t].log = <<>> THEN "nothing" ELSE "created"
       IN  SetState(t, ensure_minimum_entities([S EXCEPT !.f.note = n], d))
  /\ UNCHANGED <<Config, operation_count>>

NextEnsure ==
  \/ EnsureFirst(Main)
  \/ Receive(Main)
  \/ EnsureAgain(Main)

SpecEnsure == InitEnsure /\ [][NextEnsure]_vars

----------------------------------------------------------------------------
\* Claims about ensure_minimum_entities, under SpecEnsure.

EnsureDone == pc[Main].at = "ret" /\ pc[Main].op = "ensure"

SentPets   == Sent(pc[Main].log, "post", "pet")
SentUsers  == Sent(pc[Main].log, "post", "user")
SentOrders == Sent(pc[Main].log, "post", "order")

\* max(0, N - count) for the counts the run started with; the order loop
\* runs only while a pet is tracked
WantPets   == Max0(min_pets - Len(pc[Main].pre.pets))
WantUsers  == Max0(min_users - Len(pc[Main].pre.users))
WantOrders == IF pet_ids = <<>> THEN 0
              ELSE Max0(min_orders - Len(pc[Main].pre.orders))

\* C1 as stated: a run of ensure_minimum_entities on a kind with count < N
\* sends exactly N - count creates and leaves N tracked entities of the
\* kind, and sends no create for a kind with count >= N.
C1_AsStated ==
  EnsureDone =>
    /\ SentPets = Max0(min_pets - Len(pc[Main].pre.pets))
    /\ SentUsers = Max0(min_users - Len(pc[Main].pre.users))
    /\ SentOrders = Max0(min_orders - Len(pc[Main].pre.orders))
    /\ Len(pc[Main].pre.pets) < min_pets => Len(pet_ids) = min_pets
    /\ Len(pc[Main].pre.users) < min_users => Len(usernames) = min_users
    /\ Len(pc[Main].pre.orders) < min_orders => Len(order_ids) = min_orders

\* C1 amended: a run that returns has sent exactly max(0, N - count) create
\* requests for pets and for users, and for orders when a pet is tracked
\* (none otherwise); a run that a malformed body makes raise has sent at
\* most that many.  Every create adds at most one tracked entity, so the
\* tracked count is N afterwards exactly when every create succeeded, and
\* no create is sent for a kind whose count is already >= N.
C1_EnsureSendsTheShortfall ==
  EnsureDone =>
    /\ pc[Main].exc = "none" =>
         SentPets = WantPets /\ SentUsers = WantUsers /\ SentOrders = WantOrders
    /\ SentPets <= WantPets /\ SentUsers <= WantUsers /\ SentOrders <= WantOrders
    /\ Len(pc[Main].pre.pets) >= min_pets => SentPets = 0
    /\ Len(pc[Main].pre.users) >= min_users => SentUsers = 0
    /\ Len(pc[Main].pre.orders) >= min_orders => SentOrders = 0
    /\ Len(pet_ids) >= Len(pc[Main].pre.pets)
    /\ Len(pet_ids) <= Len(pc[Main].pre.pets) + SentPets
    /\ Len(usernames) >= Len(pc[Main].pre.users)
    /\ Len(usernames) <= Len(pc[Main].pre.users) + SentUsers
    /\ Len(order_ids) >= Len(pc[Main].pre.orders)
    /\ Len(order_ids) <= Len(pc[Main].pre.orders) + SentOrders
    /\ (pc[Main].exc = "none" /\ AllCreated(pc[Main], Tracked)) =>
         /\ Len(pet_ids) >= min_pets
         /\ Len(usernames) >= min_users
         /\ pet_ids # <<>> => Len(order_ids) >= min_orders

\* a run that found every kind short, sent the shortfall and filled it
C1_Witness ==
  /\ EnsureDone /\ pc[Main].exc = "none"
  /\ Len(pc[Main].pre.pets) < min_pets /\ Len(pet_ids) = min_pets
  /\ Len(pc[Main].pre.users) < min_users /\ Len(usernames) = min_users
  /\ Len(pc[Main].pre.orders) < min_orders /\ Len(order_ids) = min_orders
  /\ SentPets > 0 /\ SentUsers > 0 /\ SentOrders > 0

----------------------------------------------------------------------------
\* Claims about the delete operations.

protected_usernames == {UserN(i) : i \in protected_user_ids}

\* the request r is a DELETE of a protected identifier
DeletesProtected(r) ==
  /\ r.m = "delete"
  /\ \/ r.path = "pet_id" /\ r.id \in protected_pet_ids
     \/ r.path = "order_id" /\ r.id \in protected_order_ids
     \/ r.path = "user_name" /\ r.name \in protected_usernames

\* C3: no thread ever has sent a DELETE for a protected identifier (pet and
\* order IDs 1-5, usernames user1..user5).
C3_NoDeleteOfProtected ==
  \A t \in DOMAIN pc : ~DeletesProtected(pc[t].req)

\* two workers have a DELETE for a pet in flight while a protected pet is
\* tracked
C3_Witness ==
  \E t, u \in DOMAIN pc :
    /\ t # u
    /\ pc[t].at = "wait" /\ pc[t].op = "op_delete_pet" /\ pc[t].req.m = "delete"
    /\ pc[u].at = "wait" /\ pc[u].op = "op_delete_pet" /\ pc[u].req.m = "delete"
    /\ Elems(pet_ids) \cap protected_pet_ids # {}

DeleteOps == {"op_delete_pet", "op_delete_user", "op_delete_order"}

\* the tracked list that a delete operation works on, of the lists L
ListOf(op, L) ==
  CASE op = "op_delete_pet"  -> L.pets
    [] op = "op_delete_user" -> L.users
    [] OTHER                 -> L.orders

ProtectedOf(op) ==
  CASE op = "op_delete_pet"  -> protected_pet_ids
    [] op = "op_delete_user" -> protected_usernames
    [] OTHER                 -> protected_order_ids

MinOf(op) ==
  CASE op = "op_delete_pet"  -> min_pets
    [] op = "op_delete_user" -> min_users
    [] OTHER                 -> min_orders

CreateOf(op) ==
  CASE op = "op_delete_pet"  -> <<"post", "pet">>
    [] op = "op_delete_user" -> <<"post", "user">>
    [] OTHER                 -> <<"post", "order">>

DeleteOf(op) ==
  CASE op = "op_delete_pet"  -> <<"delete", "pet_id">>
    [] op = "op_delete_user" -> <<"delete", "user_name">>
    [] OTHER                 -> <<"delete", "order_id">>

\* the number of non-protected entities tracked when the operation of frame
\* f started
Deletable(f) == Len(NotProtected(ListOf(f.op, f.pre), ProtectedOf(f.op)))

C7_AsStated ==
  (pc[Main].at = "ret" /\ pc[Main].op \in DeleteOps /\ pc[Main].exc = "none"
     /\ Len(ListOf(pc[Main].op, pc[Main].pre)) >= MinOf(pc[Main].op)) =>
    Len(ListOf(pc[Main].op, Tracked)) >= MinOf(pc[Main].op)

----------------------------------------------------------------------------
\* Claims about errors.

\* C5 as stated: a 404 for /pet/{id} of a tracked id removes that id and no
\* other from pet_ids.
C5_AsStated ==
  (pc[Main].at = "ret" /\ pc[Main].op = "op_get_pet"
     /\ pc[Main].rm.kind # "none" /\ Contains(pc[Main].pre.pets, pc[Main].req.id)) =>
    pet_ids = Remove(pc[Main].pre.pets, pc[Main].req.id)

\* C8 as stated: no error of an operation ends the loop of run_simulation
\* before the deadline; the report is always made.
C8_AsStated ==
  ~(pc[Main].at = "crashed" /\ pc[Main].caller = "loop")

\* C9 as stated: every wrapper returns its failure indicator and raises
\* nothing, also for a 2xx response whose body is not JSON.
C9_AsStated ==
  (pc[Main].at = "ret" /\ pc[Main].caller = "loop") => pc[Main].out # "raise"

----------------------------------------------------------------------------
\* Claims about the fallback of the operations.

PetOps   == {"op_update_pet", "op_get_pet", "op_delete_pet"}
UserOps  == {"op_update_user", "op_get_user", "op_delete_user", "op_login_user"}
OrderOps == {"op_create_order", "op_get_order", "op_delete_order"}

\* the precondition of the operation of frame f was unmet when it started
Unmet(f) ==
  \/ f.op \in PetOps /\ f.pre.pets = <<>>
  \/ f.op \in UserOps /\ f.pre.users = <<>>
  \/ f.op \in OrderOps /\ f.pre.pets = <<>>
  \/ f.op \in {"op_get_order", "op_delete_order"} /\ f.pre.orders = <<>>

\* C12 as stated: an operation whose precondition is unmet sends a create
\* request and never returns without a request.
C12_AsStated ==
  (pc[Main].at = "ret" /\ pc[Main].caller = "loop" /\ Unmet(pc[Main])) =>
    (pc[Main].log # <<>> /\ pc[Main].log[1][1] = "post")

\* C12 amended: with no pet tracked op_update_pet and op_get_pet send
\* POST /pet; with no user tracked op_update_user, op_get_user and
\* op_login_user send POST /user; with no order tracked op_get_order sends
\* POST /store/order when a pet is tracked and nothing otherwise;
\* op_create_order sends nothing while no pet is tracked; and every delete
\* operation whose list is empty sends nothing.  The fallback is the only
\* request of the operation.
C12_FallbackCreates ==
  (pc[Main].at \in {"wait", "cleanup", "ret"} /\ pc[Main].caller = "loop") =>
    LET f == pc[Main]
    IN  /\ (f.op \in {"op_update_pet", "op_get_pet"} /\ f.pre.pets = <<>>) =>
              f.log = << <<"post", "pet">> >>
        /\ (f.op \in {"op_update_user", "op_get_user", "op_login_user"}
              /\ f.pre.users = <<>>) =>
              f.log = << <<"post", "user">> >>
        /\ (f.op = "op_get_order" /\ f.pre.orders = <<>>) =>
              f.log = IF f.pre.pets = <<>> THEN <<>> ELSE << <<"post", "order">> >>
        /\ (f.op = "op_create_order" /\ f.pre.pets = <<>>) => f.log = <<>>
        /\ (f.op \in DeleteOps /\ ListOf(f.op, f.pre) = <<>>) => f.log = <<>>

\* op_get_pet has fallen back to a create that added a tracked pet
C12_Witness ==
  /\ pc[Main].at = "ret" /\ pc[Main].caller = "loop"
  /\ pc[Main].op = "op_get_pet" /\ pc[Main].pre.pets = <<>>
  /\ pc[Main].log = << <<"post", "pet">> >>
  /\ pc[Main].out = "ok" /\ pet_ids # <<>>

----------------------------------------------------------------------------
\* One call of delete_pet, delete_user or delete_order on any tracker, with
\* any identifier of the universe and any response.

InitDelete ==
  /\ pet_ids \in ListsOver(PetPool)
  /\ usernames \in ListsOver(NamePool)
  /\ order_ids \in ListsOver(OrderPool)
  /\ min_pets = DefaultMinimums[1]
  /\ min_users = DefaultMinimums[2]
  /\ min_orders = DefaultMinimums[3]
  /\ pc = [t \in Threads |-> At("sleep")]
  /\ operation_count = [t \in Threads |-> 0]
  /\ universe = BigUniverse
  /\ remote = Unreliable
  /\ issuer = NoIssuer
  /\ auth = ApiKeyOnly
  /\ metrics = NoMetrics

\* the wrapper is called and sends its DELETE, lines 567, 668, 754
DeleteCalled(t) ==
  /\ pc[t].at = "sleep"
  /\ \/ \E id \in universe.pets :
          SetState(t, call_delete_pet(Enter(Tracked, "delete_pet", "direct"), id).S)
     \/ \E name \in universe.known \cup universe.new :
          SetState(t, Call(Enter(Tracked, "delete_user", "direct"), "delete_user",
                           Req("delete", "user_name", 0, name)))
     \/ \E id \in universe.orders :
          SetState(t, Call(Enter(Tracked, "delete_order", "direct"), "delete_order",
                           Req("delete", "order_id", id, NoName)))
  /\ UNCHANGED <<Config, operation_count>>

\* the response arrives; the frame keeps its status (0 when the transport
\* raised)
DeleteReceived(t) ==
  /\ pc[t].at = "wait"
  /\ \E resp \in Responses(pc[t].req, Tracked) :
       SetState(t, [Received(t, resp, NoDraw) EXCEPT !.f.seen = resp.status])
  /\ UNCHANGED <<Config, operation_count>>

NextDelete ==
  \/ DeleteCalled(Main)
  \/ DeleteReceived(Main)
  \/ Cleanup(Main)

SpecDelete == InitDelete /\ [][NextDelete]_vars

\* the identifier of the DELETE of frame f is tracked
StillTracked(f) ==
  CASE f.req.path = "pet_id"    -> Contains(pet_ids, f.req.id)
    [] f.req.path = "user_name" -> Contains(usernames, f.req.name)
    [] OTHER                    -> Contains(order_ids, f.req.id)

\* C11 as stated: delete_pet, delete_user and delete_order report success
\* and drop the identifier from tracking for status 200 and 204, and report
\* failure for every other status.
C11_AsStated ==
  (pc[Main].at = "ret" /\ pc[Main].caller = "direct") =>
    IF pc[Main].seen \in {200, 204}
    THEN pc[Main].out = "ok" /\ ~StillTracked(pc[Main])
    ELSE pc[Main].out = "fail"

----------------------------------------------------------------------------
\* Claims about initialize() on an empty store.

\* every order create of the log comes after a pet create
OrdersAfterPets(log) ==
  \A i \in 1..Len(log) :
    log[i] = <<"post", "order">> => \E j \in 1..(i - 1) : log[j] = <<"post", "pet">>

\* C6: with minimums 10, 5 and 3 and a working store that is empty,
\* initialize() sends exactly 10 pet creates, 5 user creates and 3 order
\* creates: refresh_state sends no create, ensure_minimum_entities never
\* sends more than these, has sent exactly these when it returns, and sends
\* every order create after a pet create and while a created pet is tracked.
C6_InitializeCreates ==
  /\ pc[Main].op = "refresh" =>
        \A i \in 1..Len(pc[Main].log) : pc[Main].log[i][1] = "get"
  /\ pc[Main].op = "ensure" =>
        /\ pc[Main].caller = "init" /\ pc[Main].exc = "none"
        /\ SentPets <= 10 /\ SentUsers <= 5 /\ SentOrders <= 3
        /\ OrdersAfterPets(pc[Main].log)
        /\ SentOrders > 0 => pet_ids # <<>>
        /\ pc[Main].at = "ret" =>
              SentPets = 10 /\ SentUsers = 5 /\ SentOrders = 3

\* ensure_minimum_entities of initialize() has returned with 10 pets, 5
\* users and 3 orders created
C6_Witness ==
  /\ EnsureDone /\ pc[Main].caller = "init" /\ remote = WorkingStore
  /\ min_pets = 10 /\ min_users = 5 /\ min_orders = 3
  /\ Len(pet_ids) = 10 /\ Len(usernames) = 5 /\ Len(order_ids) = 3
  /\ SentPets = 10 /\ SentUsers = 5 /\ SentOrders = 3

----------------------------------------------------------------------------
\* Claims about _make_request under concurrency.

\* C10 as stated: _make_request raises nothing to its caller, in the
\* sequential run and under any interleaving of the workers: no thread ever
\* sees the ValueError of the 404 clean-up.
C10_AsStated ==
  \A t \in DOMAIN pc : pc[t].exc # "ValueError"

\* C21 as stated: the races on the tracked lists are benign: under every
\* interleaving no worker's loop is ended by the exception of a removal of
\* an identifier that another thread has removed already.
C21_AsStated ==
  \A w \in Workers : pc[w].at = "stopped" => pc[w].exc # "ValueError"

----------------------------------------------------------------------------
\* run_parallel_simulation against a working store: min_pets = 6, four
\* protected pets and two others are tracked, so that one more delete is
\* allowed and a second is not.

RaceUniverse == Universe(1..8, {6}, {}, {NameA})

InitRace ==
  /\ universe = RaceUniverse
  /\ pet_ids = <<1, 2, 3, 4, 6, 7>>
  /\ usernames = <<>>
  /\ order_ids = <<>>
  /\ min_pets = 6 /\ min_users = 0 /\ min_orders = 0
  /\ pc = [t \in {Main} \cup Workers |-> IF t = Main THEN At("sleep") ELSE At("idle")]
  /\ operation_count = [t \in {Main} \cup Workers |-> 0]
  /\ remote = WorkingStore
  /\ issuer = NoIssuer
  /\ auth = ApiKeyOnly
  /\ metrics = NoMetrics

\* the store holds what is tracked, so no 404 clean-up finds an entry
NextRace ==
  \/ \E w \in Workers :
       \/ WorkerOperation(w)
       \/ WorkerAfterOperation(w)
       \/ WorkerDeadline(w)
  \/ \E t \in {Main} \cup Workers : Receive(t)
  \/ SupervisorEnsure(Main)
  \/ AfterEnsure(Main)
  \/ SupervisorDeadline(Main)
  \/ Join(Main)

SpecRace == InitRace /\ [][NextRace]_vars

\* C22 as stated: with every request succeeding, concurrent op_delete_pet
\* executions never leave fewer than min_pets - 5 non-protected pet IDs
\* tracked.
C22_AsStated ==
  Len(NotProtected(pet_ids, protected_pet_ids)) >= min_pets - 5

----------------------------------------------------------------------------
\* The operations of the sequential loop on any tracked lists, each frame
\* keeping the status of the last response it got.

InitFailure ==
  /\ pet_ids \in ListsOver(PetPool)
  /\ usernames \in ListsOver(NamePool)
  /\ order_ids \in ListsOver(OrderPool)
  /\ min_pets = 2 /\ min_users = 1 /\ min_orders = 1
  /\ pc = [t \in Threads |-> At("idle")]
  /\ operation_count = [t \in Threads |-> 0]
  /\ universe = BigUniverse
  /\ remote = Unreliable
  /\ issuer = NoIssuer
  /\ auth = ApiKeyOnly
  /\ metrics = NoMetrics

\* the response to the request in flight arrives, lines 365-420; the frame
\* keeps its status (0 when the transport raised)
OpReceived(t) ==
  /\ pc[t].at = "wait"
  /\ \E resp \in Responses(pc[t].req, Tracked), d \in StepDraws(pc[t]) :
       SetState(t, [Received(t, resp, d) EXCEPT !.f.seen = resp.status])
  /\ UNCHANGED <<Config, operation_count>>

NextFailure ==
  \/ SimulateRandomOperation(Main)
  \/ OpReceived(Main)
  \/ Cleanup(Main)
  \/ AfterOperation(Main)
  \/ Deadline(Main)

SpecFailure == InitFailure /\ [][NextFailure]_vars

\* C23 as stated: an operation whose one request failed for another reason
\* than a 404 (timeout, connection error, 500) returns with pet_ids,
\* usernames and order_ids as they were when it started.
C23_AsStated ==
  (/\ pc[Main].at = "ret" /\ pc[Main].caller = "loop"
   /\ Len(pc[Main].log) = 1 /\ pc[Main].seen \in {0, 500})
     => Tracked = pc[Main].pre

----------------------------------------------------------------------------
\* refresh_state run twice against a remote that does not change: a store
\* with fixed contents that answers every request the same way each time.

\* the answer of the unchanging store: an endpoint that is down answers 500,
\* a pet is listed under its status, an order or user is found or is not
FixedResponse(r) ==
  IF r.path \in remote.down THEN Resp("http", 500, "json", 0, NoName, {})
  ELSE CASE r.path = "findByStatus" ->
              Resp("http", 200, "json", 0, NoName,
                   {p \in DOMAIN remote.pets :
                      remote.pets[p] > 0 /\ StatusList[remote.pets[p]] = r.name})
         [] r.path = "order_id" ->
              IF r.id \in remote.orders
              THEN Resp("http", 200, "json", r.id, NoName, {})
              ELSE Resp("http", 404, "json", 0, NoName, {})
         [] r.path = "user_name" ->
              IF r.name \in remote.users
              THEN Resp("http", 200, "json", 0, r.name, {})
              ELSE Resp("http", 404, "json", 0, NoName, {})
         [] OTHER -> Resp("http", 200, "json", 0, NoName, {})

\* the tracked lists before the first run: at most one entry each, which
\* the store may or may not hold
Short(U) == {s \in ListsOver(U) : Len(s) <= 1}

InitRefresh ==
  /\ pet_ids \in Short({1, 6})
  /\ usernames \in Short({UserN(1), UserN(2)})
  /\ order_ids \in Short({1, 2})
  /\ min_pets = DefaultMinimums[1]
  /\ min_users = DefaultMinimums[2]
  /\ min_orders = DefaultMinimums[3]
  /\ pc = [t \in Threads |-> At("sleep")]
  /\ operation_count = [t \in Threads |-> 0]
  /\ universe = BigUniverse
  /\ \E pets \in [{1, 6} -> 0..Len(StatusList)], orders \in SUBSET {1, 2},
        users \in SUBSET {UserN(1), UserN(2)},
        down \in SUBSET {"inventory", "findByStatus"} :
       remote = [pets |-> pets, orders |-> orders, users |-> users, down |-> down]
  /\ issuer = NoIssuer
  /\ auth = ApiKeyOnly
  /\ metrics = NoMetrics

\* refresh_state is called, line 427
RefreshFirst(t) ==
  /\ pc[t].at = "sleep"
  /\ SetState(t, call_refresh_state(Enter(Tracked, "refresh", "first")).S)
  /\ UNCHANGED <<Config, operation_count>>

\* the store answers the request in flight, lines 365-420
RefreshReceived(t) ==
  /\ pc[t].at = "wait"
  /\ SetState(t, Received(t, FixedResponse(pc[t].req), NoDraw))
  /\ UNCHANGED <<Config, operation_count>>

\* refresh_state is called again when it has returned
RefreshAgain(t) ==
  /\ pc[t].at = "ret" /\ pc[t].op = "refresh" /\ pc[t].caller = "first"
  /\ LET S == Enter(Tracked, "refresh", "second")
         n == IF Tracked = pc[t].pre THEN "nothing" ELSE "changed"
     IN  SetState(t, call_refresh_state([S EXCEPT !.f.note = n]).S)
  /\ UNCHANGED <<Config, operation_count>>

NextRefresh ==
  \/ RefreshFirst(Main)
  \/ RefreshReceived(Main)
  \/ Cleanup(Main)
  \/ RefreshAgain(Main)

SpecRefresh == InitRefresh /\ [][NextRefresh]_vars

\* no entry occurs twice in a list
NoDuplicates(s) == \A i, j \in 1..Len(s) : s[i] = s[j] => i = j

\* C18: refresh_state never appends an identifier that is already tracked
\* (the lists stay free of duplicates), and a second run against the
\* unchanged remote leaves the tracked lists as the first run left them.
C18_RefreshIdempotent ==
  /\ NoDuplicates(pet_ids) /\ NoDuplicates(usernames) /\ NoDuplicates(order_ids)
  /\ (pc[Main].at = "ret" /\ pc[Main].op = "refresh" /\ pc[Main].caller = "second")
        => Tracked = pc[Main].pre

\* the second run has returned after a first run that added a pet to a
\* tracked one and found an order and a user
C18_Witness ==
  /\ pc[Main].at = "ret" /\ pc[Main].op = "refresh" /\ pc[Main].caller = "second"
  /\ pc[Main].note = "changed"
  /\ Len(pet_ids) = 2 /\ order_ids # <<>> /\ usernames # <<>>
  /\ remote.down = {}

----------------------------------------------------------------------------
\* The requests of one operation of the loop.

\* C33: an operation of the loop sends each of its requests at most once;
\* a request is in flight after another only when that one succeeded, so a
\* failed request ends the operation and is not sent again; and the only
\* operation with two requests is op_update_pet, whose PUT /pet follows its
\* GET /pet/{id} after the GET has succeeded.
C33_NoRetry ==
  LET f == pc[Main]
  IN  (f.caller = "loop" /\ f.op \in Elems(operations)) =>
        /\ \A i, j \in 1..Len(f.log) : f.log[i] = f.log[j] => i = j
        /\ Len(f.log) <= 2
        /\ Len(f.log) = 2 =>
             /\ f.op = "op_update_pet"
             /\ f.log = << <<"get", "pet_id">>, <<"put", "pet">> >>
        /\ (f.at = "wait" /\ Len(f.log) >= 2) => IsSuccess(f.seen)
        /\ (f.at = "wait" /\ f.req.m = "put" /\ f.req.path = "pet") =>
             /\ Len(f.log) = 2 /\ IsSuccess(f.seen)
             /\ Contains(f.pre.pets, f.req.id)

\* op_update_pet has its PUT in flight after a GET answered 200
C33_Witness ==
  /\ pc[Main].caller = "loop" /\ pc[Main].op = "op_update_pet"
  /\ pc[Main].at = "wait" /\ pc[Main].req.m = "put" /\ pc[Main].req.id = 6
  /\ pc[Main].seen = 200
  /\ pc[Main].log = << <<"get", "pet_id">>, <<"put", "pet">> >>

----------------------------------------------------------------------------
\* The credentials of the requests: __init__ loads the token files, then
\* requests are made.

\* what a token file holds: a token, nothing, or it cannot be read
TokenFiles == {"jwt1", "jwt2", "", "unreadable"}

\* at most MaxTokenFiles token files are given
FileLists == UNION { [1..n -> TokenFiles] : n \in 0..MaxTokenFiles }

\* the headers a caller of _make_request passes
PassedHeaders ==
  {NoHeaders, [h \in {"X-Trace"} |-> "1"], [h \in {"api-key-petstore"} |-> "stale"]}

AuthFrame == <<pet_ids, usernames, order_ids, min_pets, min_users, min_orders,
               pc, operation_count, universe, remote, issuer, metrics>>

InitAuth ==
  /\ pet_ids = <<>> /\ usernames = <<>> /\ order_ids = <<>>
  /\ min_pets = DefaultMinimums[1]
  /\ min_users = DefaultMinimums[2]
  /\ min_orders = DefaultMinimums[3]
  /\ pc = [t \in Threads |-> At("init")]
  /\ operation_count = [t \in Threads |-> 0]
  /\ universe = BigUniverse
  /\ remote = Unreliable
  /\ issuer = NoIssuer
  /\ \E files \in FileLists : auth = Auth("key", files, <<>>)
  /\ metrics = NoMetrics

\* __init__, lines 237-244: the next token file is read and its stripped
\* content appended, or reading fails and the file is skipped
LoadToken ==
  /\ pc[Main].at = "init"
  /\ operation_count[Main] < Len(auth.jwt_token_files)
  /\ LET file == auth.jwt_token_files[operation_count[Main] + 1]
     IN  auth' = IF file = "unreadable" THEN auth
                 ELSE [auth EXCEPT !.jwt_tokens = Append(@, file)]
  /\ operation_count' = [operation_count EXCEPT ![Main] = @ + 1]
  /\ UNCHANGED <<pet_ids, usernames, order_ids, min_pets, min_users, min_orders,
                 pc, universe, remote, issuer, metrics>>

\* every file has been gone through, lines 246-249
Loaded ==
  /\ pc[Main].at = "init"
  /\ operation_count[Main] = Len(auth.jwt_token_files)
  /\ pc' = [pc EXCEPT ![Main] = At("sleep")]
  /\ UNCHANGED <<pet_ids, usernames, order_ids, Config, operation_count>>

\* _make_request builds the headers of a request, lines 344-355
MakeRequest ==
  /\ pc[Main].at = "sleep"
  /\ \E method \in {"get", "post", "put", "delete"}, passed \in PassedHeaders,
        i \in 1..Len(auth.jwt_tokens) \cup {1} :
       auth' = [auth EXCEPT !.method = method,
                            !.headers = request_headers(auth, passed, i)]
  /\ UNCHANGED AuthFrame

NextAuth ==
  \/ LoadToken
  \/ Loaded
  \/ MakeRequest

SpecAuth == InitAuth /\ [][NextAuth]_vars

\* C19: every request carries the api-key-petstore header with one
\* credential: one of the loaded JWT tokens when at least one was loaded,
\* the static API key exactly when none was loaded.
C19_OneCredential ==
  auth.method # "none" =>
     /\ "api-key-petstore" \in DOMAIN auth.headers
     /\ IF auth.jwt_tokens # <<>>
        THEN /\ \E i \in 1..Len(auth.jwt_tokens) :
                  auth.headers["api-key-petstore"] = auth.jwt_tokens[i]
             /\ auth.headers["api-key-petstore"] # auth.api_key
        ELSE auth.headers["api-key-petstore"] = auth.api_key

\* a DELETE went out with the second of two loaded tokens
C19_Witness ==
  /\ auth.method = "delete"
  /\ auth.jwt_tokens = <<"jwt1", "jwt2">>
  /\ auth.headers["api-key-petstore"] = "jwt2"

\* C28 as stated: a run started with --use-jwt that has not exited, that
\* is a simulator constructed with the non-empty list of token files that
\* generate_jwt_tokens returned (lines 207-211, 1194-1206), sends no
\* request with the static API key, also when a token file cannot be read.
C28_AsStated ==
  (auth.jwt_token_files # <<>> /\ auth.method # "none") =>
     auth.headers["api-key-petstore"] # auth.api_key

----------------------------------------------------------------------------
\* run_simulation against a working store that is empty at the start.  One
\* user is asked for, so that every create of initialize() succeeds.

ConfigsStore == {<<2, 1, 1>>, <<1, 1, 2>>}

InitStore ==
  /\ pet_ids = <<>> /\ usernames = <<>> /\ order_ids = <<>>
  /\ \E c \in ConfigsStore : min_pets = c[1] /\ min_users = c[2] /\ min_orders = c[3]
  /\ pc = [t \in Threads |-> At("new")]
  /\ operation_count = [t \in Threads |-> 0]
  /\ universe = StoreUniverse
  /\ remote = WorkingStore
  /\ issuer = NoIssuer
  /\ auth = ApiKeyOnly
  /\ metrics = NoMetrics

\* the store holds what is tracked, so no 404 clean-up finds an entry
NextStore ==
  \/ Initialize(Main)
  \/ Receive(Main)
  \/ AfterRefresh(Main)
  \/ AfterEnsure(Main)
  \/ SimulateRandomOperation(Main)
  \/ AfterOperation(Main)
  \/ Deadline(Main)

SpecStore == InitStore /\ [][NextStore]_vars

\* C20 as stated: when every create succeeds, a count below its minimum is
\* transient: a periodic ensure_minimum_entities has raised it back to the
\* minimum by the time the run ends.  Here for the runs of one operation
\* after initialize(), in which no create fails.
C20_AsStated ==
  (pc[Main].at = "report" /\ pc[Main].exc = "none" /\ operation_count[Main] = 1) =>
     /\ Len(pet_ids) >= min_pets
     /\ Len(usernames) >= min_users
     /\ Len(order_ids) >= min_orders

----------------------------------------------------------------------------
\* run_simulation with the remote store as a state of its own: the store
\* holds pets, users and orders, the driver is its only writer, and every
\* request is carried out and answered correctly by the store.

Store(pets, users, orders) == [pets |-> pets, users |-> users, orders |-> orders]

LiveUniverse == Universe({1, 6, 7, 8}, {1, 6, 7}, {UserN(1)}, NewNames)

\* what the store does with request r and answers: the pairs of a response
\* and the store after it
StoreAnswers(r, st) ==
  LET ok(id, name, ids) == Resp("http", 200, "json", id, name, ids)
      nf   == Resp("http", 404, "json", 0, NoName, {})
      full == Resp("http", 500, "json", 0, NoName, {})
      a(resp, after) == [resp |-> resp, store |-> after]
  IN  CASE r.m = "post" /\ r.path = "pet" ->
             IF FreshIds(universe.pets, st.pets) = {} THEN { a(full, st) }
             ELSE { a(ok(i, NoName, {}), [st EXCEPT !.pets = @ \cup {i}]) :
                      i \in FreshIds(universe.pets, st.pets) }
        [] r.m = "post" /\ r.path = "order" ->
             IF FreshIds(universe.orders, st.orders) = {} THEN { a(full, st) }
             ELSE { a(ok(i, NoName, {}), [st EXCEPT !.orders = @ \cup {i}]) :
                      i \in FreshIds(universe.orders, st.orders) }
        [] r.m = "post" /\ r.path = "user" ->
             IF r.name \in st.users THEN { a(full, st) }
             ELSE { a(ok(0, r.name, {}), [st EXCEPT !.users = @ \cup {r.name}]) }
        [] r.path = "pet_id" ->
             IF r.id \notin st.pets THEN { a(nf, st) }
             ELSE IF r.m = "delete"
             THEN { a(ok(r.id, NoName, {}), [st EXCEPT !.pets = @ \ {r.id}]) }
             ELSE { a(ok(r.id, NoName, {}), st) }
        [] r.m = "put" /\ r.path = "pet" ->
             IF r.id \in st.pets THEN { a(ok(r.id, NoName, {}), st) } ELSE { a(nf, st) }
        [] r.path = "order_id" ->
             IF r.id \notin st.orders THEN { a(nf, st) }
             ELSE IF r.m = "delete"
             THEN { a(ok(r.id, NoName, {}), [st EXCEPT !.orders = @ \ {r.id}]) }
             ELSE { a(ok(r.id, NoName, {}), st) }
        [] r.path \in {"user_name", "login"} ->
             IF r.name \notin st.users THEN { a(nf, st) }
             ELSE IF r.m = "delete"
             THEN { a(ok(0, r.name, {}), [st EXCEPT !.users = @ \ {r.name}]) }
             ELSE { a(ok(0, r.name, {}), st) }
        [] r.path = "findByStatus" ->
             { a(ok(0, NoName, ids), st) : ids \in SUBSET st.pets }
        [] OTHER -> { a(ok(0, NoName, {}), st) }

\* the store before the run: any of the base pets 1 and 6, order 1, user1
InitLive ==
  /\ pet_ids = <<>> /\ usernames = <<>> /\ order_ids = <<>>
  /\ \E c \in ConfigsStore : min_pets = c[1] /\ min_users = c[2] /\ min_orders = c[3]
  /\ pc = [t \in Threads |-> At("new")]
  /\ operation_count = [t \in Threads |-> 0]
  /\ universe = LiveUniverse
  /\ \E pets \in SUBSET {1, 6}, users \in SUBSET {UserN(1)}, orders \in SUBSET {1} :
       remote = Store(pets, users, orders)
  /\ issuer = NoIssuer
  /\ auth = ApiKeyOnly
  /\ metrics = NoMetrics

\* the store carries out the request in flight and its response arrives,
\* lines 365-420
StoreReceive(t) ==
  /\ pc[t].at = "wait"
  /\ \E a \in StoreAnswers(pc[t].req, remote), d \in StepDraws(pc[t]) :
       /\ SetState(t, Received(t, a.resp, d))
       /\ remote' = a.store
  /\ UNCHANGED <<min_pets, min_users, min_orders, universe, issuer, auth,
                 operation_count, metrics>>

NextLive ==
  \/ Initialize(Main)
  \/ StoreReceive(Main)
  \/ AfterRefresh(Main)
  \/ AfterEnsure(Main)
  \/ SimulateRandomOperation(Main)
  \/ AfterOperation(Main)
  \/ Deadline(Main)

SpecLive == InitLive /\ [][NextLive]_vars

\* C24: in the sequential run against a store that only the driver writes
\* and that answers every request correctly, every tracked pet ID, username
\* and order ID names an entity the store holds, in every state of the run
\* (and so after each completed operation); no 404 clean-up is ever
\* triggered.
C24_TrackedExist ==
  /\ Elems(pet_ids) \subseteq remote.pets
  /\ Elems(usernames) \subseteq remote.users
  /\ Elems(order_ids) \subseteq remote.orders
  /\ pc[Main].at # "cleanup"

\* op_delete_user has deleted the only tracked user, in the store and in
\* the list, while created pets are tracked and held by the store
C24_Witness ==
  /\ pc[Main].at = "ret" /\ pc[Main].op = "op_delete_user"
  /\ pc[Main].req.m = "delete" /\ pc[Main].out = "ok"
  /\ usernames = <<>> /\ pc[Main].pre.users # <<>>
  /\ Len(pet_ids) >= 2 /\ Elems(pet_ids) \subseteq remote.pets

\* C25: whenever an order-create request is in flight in the sequential
\* run, at least one pet ID is tracked and the request's petId is one of
\* pet_ids: with no tracked pet neither create_random_order nor the order
\* step of ensure_minimum_entities sends a request.
C25_OrderNeedsPet ==
  (pc[Main].at = "wait" /\ pc[Main].req.m = "post" /\ pc[Main].req.path = "order") =>
     /\ pet_ids # <<>>
     /\ pc[Main].req.id \in Elems(pet_ids)

\* the order step of ensure_minimum_entities has an order create in flight
\* for the second of two tracked pets
C25_Witness ==
  /\ pc[Main].at = "wait" /\ pc[Main].op = "ensure" /\ pc[Main].phase = "orders"
  /\ pc[Main].req.m = "post" /\ pc[Main].req.path = "order"
  /\ Len(pet_ids) = 2 /\ pc[Main].req.id = pet_ids[2]

----------------------------------------------------------------------------
\* run_parallel_simulation with an interrupt from outside.

\* KeyboardInterrupt is raised in the main thread, wherever it is inside the
\* try of lines 1032-1036 (asleep or in ensure_minimum_entities, whose
\* request is then abandoned), and is caught at line 1037: the `with` block
\* waits for the workers
Interrupt(t) ==
  /\ pc[t].at \notin {"join", "report"}
  /\ pc' = [pc EXCEPT ![t] = [At("join") EXCEPT !.exc = "KeyboardInterrupt"]]
  /\ UNCHANGED <<pet_ids, usernames, order_ids, Config, operation_count>>

InitInterrupt ==
  /\ InitPar
  /\ Len(pet_ids) <= 1

NextInterrupt ==
  \/ NextPar
  \/ Interrupt(Main)

SpecInterrupt == InitInterrupt /\ [][NextInterrupt]_vars

\* the main thread has caught the interrupt
Interrupted == pc[Main].at = "join" /\ pc[Main].exc = "KeyboardInterrupt"

\* C17 as stated: once the run has been interrupted, no worker picks a new
\* operation at its loop check; requests in flight may still return.
C17_AsStated ==
  [][Interrupted => \A w \in Workers : pc[w].at = "idle" => pc'[w].at \in {"idle", "stopped"}]_vars

----------------------------------------------------------------------------
\* The token generator on its own: customers are registered and tokens are
\* asked for, for registered and unregistered usernames, at any time of the
\* wall clock.

\* the driver does not run
DriverOff ==
  /\ pet_ids = <<>> /\ usernames = <<>> /\ order_ids = <<>>
  /\ min_pets = DefaultMinimums[1]
  /\ min_users = DefaultMinimums[2]
  /\ min_orders = DefaultMinimums[3]
  /\ pc = [t \in Threads |-> At("off")]
  /\ operation_count = [t \in Threads |-> 0]
  /\ universe = BigUniverse
  /\ remote = Unreliable
  /\ auth = ApiKeyOnly
  /\ metrics = NoMetrics

DriverVars == <<pet_ids, usernames, order_ids, min_pets, min_users, min_orders,
                pc, operation_count, universe, remote, auth, metrics>>

CustomerNames == {"alice", "bob"}

\* additional_metadata of a customer: none, the keys of the example
\* customers, and keys that to_dict also sets itself
Metadatas ==
  {NoMetadata, [rate_limit |-> "1000"], [username |-> "mallory"],
   [customer_type |-> "premium"]}

Customers ==
  {Customer(n, ty, md) : n \in CustomerNames, ty \in CustomerType, md \in Metadatas}

\* expiration_seconds
Durations == {0, 1, 3600}

NoCustomers == [n \in {} |-> Customer("none", "free", NoMetadata)]
NoCall == [username |-> "none", expiration_seconds |-> 0, encodes |-> TRUE,
           clock |-> <<0, 0>>]
NoResult == [kind |-> "none", payload |-> NoPayload]

\* TokenGenerator.__init__ has loaded the key, lines 58-63
InitGenerator ==
  /\ DriverOff
  /\ issuer = [at |-> "generator", customers |-> NoCustomers,
               call |-> NoCall, result |-> NoResult]

\* add_customer, line 130
AddCustomer ==
  /\ issuer.at = "generator"
  /\ \E c \in Customers :
       issuer' = [issuer EXCEPT !.customers = add_customer(@, c),
                                !.call = NoCall, !.result = NoResult]
  /\ UNCHANGED DriverVars

\* generate_token is called and returns, raises or exits; the wall clock may
\* stand still, advance or be stepped back between its two reads
GenerateToken ==
  /\ issuer.at = "generator"
  /\ \E username \in CustomerNames, d \in Durations, encodes \in BOOLEAN,
        t1 \in 0..MaxClock :
       \E t2 \in {t \in 0..MaxClock : t >= t1 - 1 /\ t <= t1 + 1} :
         issuer' = [issuer EXCEPT
                      !.call = [username |-> username, expiration_seconds |-> d,
                                encodes |-> encodes, clock |-> <<t1, t2>>],
                      !.result = generate_token(issuer.customers, username, d,
                                                t1, t2, encodes)]
  /\ UNCHANGED DriverVars

NextGenerator ==
  \/ AddCustomer
  \/ GenerateToken

SpecGenerator == InitGenerator /\ [][NextGenerator]_vars

----------------------------------------------------------------------------
\* The command line of the token issuer, one run of __main__.

\* what the file at --key-path is: absent, a PEM EC key, a PEM key of another
\* kind (load_pem_private_key parses it, jwt.encode refuses it for ES256), the
\* JSON key of mkjwk.org, something else, or a file that cannot be read
KeyFiles == {"missing", "pem_ec", "pem_other", "jwk_json", "garbage", "unreadable"}

\* --customer-type: not given, a member of choices, or another word
CustomerTypeArgs == {"none", "gold"} \cup CustomerType

\* --additional-metadata: not given, a JSON object, text that is not JSON, or
\* JSON that is not an object
MetadataArgs == {"none", "object", "notjson", "array"}

Args ==
  [key_path : KeyFiles, username : BOOLEAN, email : BOOLEAN,
   customer_type : CustomerTypeArgs, additional_metadata : MetadataArgs]

Running == 0 - 1

InitCli ==
  /\ DriverOff
  /\ \E args \in Args :
       issuer = [at |-> "cli", step |-> "parse_args", args |-> args,
                 code |-> Running, result |-> NoResult]

Exit(code) == [issuer EXCEPT !.step = "exited", !.code = code]

\* parse_args, lines 228-252: argparse ends the process with code 2 for a
\* --customer-type outside choices
ParseArgs ==
  /\ issuer.at = "cli" /\ issuer.step = "parse_args"
  /\ issuer' = IF issuer.args.customer_type \notin CustomerType \cup {"none"}
               THEN Exit(2)
               ELSE [issuer EXCEPT !.step = "load_key"]
  /\ UNCHANGED DriverVars

\* _load_private_key, lines 65-126
LoadKey ==
  /\ issuer.at = "cli" /\ issuer.step = "load_key"
  /\ issuer' = IF issuer.args.key_path \in {"pem_ec", "pem_other"}
               THEN [issuer EXCEPT !.step = "main"]
               ELSE Exit(1)
  /\ UNCHANGED DriverVars

\* the exit code after generate_token: SystemExit(1) of generate_token, the
\* handler of line 366 for an exception, 0 at the end of the script
CodeOf(result) == IF result.kind = "token" THEN 0 ELSE 1

\* __main__ with --username, --customer-type and --email, lines 269-313
RunCustomer ==
  /\ issuer.at = "cli" /\ issuer.step = "main"
  /\ issuer.args.username /\ issuer.args.customer_type # "none" /\ issuer.args.email
  /\ \E t1 \in 0..MaxClock :
       LET md == issuer.args.additional_metadata
           customer == Customer("alice", issuer.args.customer_type,
                                IF md = "object" THEN [rate_limit |-> "1000"]
                                                 ELSE NoMetadata)
           result == IF md = "array"
                     THEN [kind |-> "TypeError", payload |-> NoPayload]
                     ELSE generate_token(add_customer(NoCustomers, customer), "alice",
                                         3600, t1, t1, issuer.args.key_path = "pem_ec")
       IN  issuer' = IF md = "notjson" THEN Exit(1)
                     ELSE [Exit(CodeOf(result)) EXCEPT !.result = result]
  /\ UNCHANGED DriverVars

\* __main__ with the example customers, lines 315-365
RunExamples ==
  /\ issuer.at = "cli" /\ issuer.step = "main"
  /\ ~(issuer.args.username /\ issuer.args.customer_type # "none" /\ issuer.args.email)
  /\ \E t1 \in 0..MaxClock :
       LET customer == Customer("user1", "premium", [rate_limit |-> "1000"])
           result == generate_token(add_customer(NoCustomers, customer), "user1",
                                    3600, t1, t1, issuer.args.key_path = "pem_ec")
       IN  issuer' = [Exit(CodeOf(result)) EXCEPT !.result = result]
  /\ UNCHANGED DriverVars

NextCli ==
  \/ ParseArgs
  \/ LoadKey
  \/ RunCustomer
  \/ RunExamples

SpecCli == InitCli /\ [][NextCli]_vars

----------------------------------------------------------------------------
\* Claims about the token generator.

\* C13 as stated: every token's exp equals its iat plus the requested
\* expiration_seconds, whatever the wall clock is at and between the two
\* clock reads.
C13_AsStated ==
  (issuer.at = "generator" /\ issuer.result.kind = "token") =>
     issuer.result.payload.exp =
        issuer.result.payload.iat + issuer.call.expiration_seconds

\* C15 as stated: generate_token raises ValueError and produces no token for
\* an unregistered username, and produces a token whose sub is the username
\* for every registered one.
C15_AsStated ==
  (issuer.at = "generator" /\ issuer.result.kind # "none") =>
     IF issuer.call.username \notin DOMAIN issuer.customers
     THEN issuer.result = [kind |-> "ValueError", payload |-> NoPayload]
     ELSE /\ issuer.result.kind = "token"
          /\ issuer.result.payload.sub = issuer.call.username

\* C15: generate_token for a username that is not registered raises
\* ValueError and produces no token; for a registered username it produces a
\* token whose sub is that username (when jwt.encode accepts the key;
\* otherwise the process exits with code 1 and there is no token either).
C15_UnregisteredRaises ==
  (issuer.at = "generator" /\ issuer.result.kind # "none") =>
     IF issuer.call.username \notin DOMAIN issuer.customers
     THEN issuer.result = [kind |-> "ValueError", payload |-> NoPayload]
     ELSE IF issuer.call.encodes
          THEN /\ issuer.result.kind = "token"
               /\ issuer.result.payload.sub = issuer.call.username
          ELSE issuer.result = [kind |-> "exit1", payload |-> NoPayload]

\* a token was asked for an unregistered username while another customer is
\* registered
C15_Witness ==
  /\ issuer.at = "generator"
  /\ issuer.result.kind = "ValueError"
  /\ issuer.call.username = "bob"
  /\ DOMAIN issuer.customers = {"alice"}

\* C16 as stated: in every token the top-level username and customer_type
\* equal the nested customer.username and customer.customer_type, whatever
\* the customer's additional metadata keys are.
C16_AsStated ==
  (issuer.at = "generator" /\ issuer.result.kind = "token") =>
     /\ issuer.result.payload.username = issuer.result.payload.customer.username
     /\ issuer.result.payload.customer_type =
           issuer.result.payload.customer.customer_type

\* C14 as stated: the command line ends with exit code 1 on every fatal
\* error: a key that is missing or cannot be loaded, an --additional-metadata
\* that is not valid JSON, a --customer-type outside free, standard, premium.
C14_AsStated ==
  (issuer.at = "cli" /\ issuer.step = "exited") =>
     ((\/ issuer.args.key_path \notin {"pem_ec", "pem_other"}
       \/ issuer.args.additional_metadata = "notjson"
       \/ issuer.args.customer_type \notin CustomerType \cup {"none"})
      => issuer.code = 1)

----------------------------------------------------------------------------
\* A run started with --use-jwt: generate_jwt_tokens asks the token script
\* for one token per user, the simulator is constructed, initialize() makes
\* its requests, and run_simulation fixes its deadline.  Time in seconds.

\* --duration, in minutes
MaxDuration == 2

\* self.timeout, line 301
timeout == 10

\* the users of generate_jwt_tokens and the expiration asked for each, lines
\* 91-106: int(duration_minutes * 60 * 0.75) truncates a product that is
\* not negative
token_users == <<"user1", "user2", "user3">>

base_expiration_seconds(D) == D * 60 + 60

expiration(D, u) ==
  CASE u = 1 -> (D * 60 * 75) \div 100
    [] u = 2 -> base_expiration_seconds(D)
    [] u = 3 -> base_expiration_seconds(D) * 2

python_executables == <<"python", "python3">>

\* what one run of the script gives: a return code that is not 0 or an
\* exception; the line "Token saved to:"; no such line and a file of the
\* user in the token directory; no such line and no file
ScriptOutcomes == {"failed", "saved", "found", "nothing"}

\* the seconds one run of the script may take
ScriptSeconds == {0, 1}

\* initialize() makes at least the requests of refresh_state that do not
\* depend on a response (lines 436, 453, 464), and at most those, the three
\* findByStatus and the creates of the default minimums
InitRequestsMin == 1 + ProbeMax + ProbeMax

InitRequestsMax ==
  InitRequestsMin + Cardinality(pet_statuses)
    + DefaultMinimums[1] + DefaultMinimums[2] + DefaultMinimums[3]

InitTokens ==
  /\ DriverOff
  /\ \E D \in 0..MaxDuration :
       issuer = [at |-> "tokens", duration |-> D, now |-> 0, user |-> 1,
                 exec |-> 1, token_files |-> <<>>, requests |-> 0,
                 end_time |-> 0]

\* one pass of the loop over python_executables, lines 147-202: the script
\* is run; a token file is recorded and the user is done, or the next
\* executable is tried, or the user is given up
RunTokenScript ==
  /\ issuer.at = "tokens"
  /\ issuer.user <= Len(token_users)
  /\ \E o \in ScriptOutcomes, dt \in ScriptSeconds :
       LET u    == issuer.user
           iat  == issuer.now
           file == [user |-> token_users[u],
                    requested |-> expiration(issuer.duration, u),
                    exp |-> iat + expiration(issuer.duration, u)]
           done == o \in {"saved", "found"} \/ issuer.exec = Len(python_executables)
       IN  issuer' = [issuer EXCEPT
                        !.now = @ + dt,
                        !.token_files = IF o \in {"saved", "found"}
                                        THEN Append(@, file) ELSE @,
                        !.user = IF done THEN u + 1 ELSE u,
                        !.exec = IF done THEN 1 ELSE @ + 1]
  /\ UNCHANGED DriverVars

\* lines 207-211: no token file recorded ends the process with code 1;
\* otherwise the simulator is constructed (lines 1199-1206)
TokensGenerated ==
  /\ issuer.at = "tokens"
  /\ issuer.user > Len(token_users)
  /\ issuer' = [issuer EXCEPT !.at = IF issuer.token_files = <<>>
                                     THEN "exit1" ELSE "init"]
  /\ UNCHANGED DriverVars

\* a request of initialize() returns at once or after the timeout, lines
\* 309, 427-430, 357-358
InitRequest ==
  /\ issuer.at = "init"
  /\ issuer.requests < InitRequestsMax
  /\ \E dt \in {0, timeout} :
       issuer' = [issuer EXCEPT !.now = @ + dt, !.requests = @ + 1]
  /\ UNCHANGED DriverVars

\* run_simulation fixes end_time, line 975
StartRun ==
  /\ issuer.at = "init"
  /\ issuer.requests >= InitRequestsMin
  /\ issuer' = [issuer EXCEPT !.at = "running",
                              !.end_time = issuer.now + issuer.duration * 60]
  /\ UNCHANGED DriverVars

\* the loop test fails once the clock has reached end_time, line 982
EndRun ==
  /\ issuer.at = "running"
  /\ issuer' = [issuer EXCEPT !.at = "report", !.now = issuer.end_time]
  /\ UNCHANGED DriverVars

NextTokens ==
  \/ RunTokenScript
  \/ TokensGenerated
  \/ InitRequest
  \/ StartRun
  \/ EndRun

SpecTokens == InitTokens /\ [][NextTokens]_vars

\* the recorded token files of a user
FilesOf(name) ==
  {i \in 1..Len(issuer.token_files) : issuer.token_files[i].user = name}

\* C29 as stated: the expirations asked for user1, user2, user3 increase
\* strictly; at most one token file is recorded per user; and, the deadline
\* of the simulation being fixed, the token of user1 expires before it when
\* the duration is positive, those of user2 and user3 after it.
C29_AsStated ==
  /\ expiration(issuer.duration, 1) < expiration(issuer.duration, 2)
  /\ expiration(issuer.duration, 2) < expiration(issuer.duration, 3)
  /\ \A i \in 1..Len(token_users) : Cardinality(FilesOf(token_users[i])) <= 1
  /\ issuer.at \in {"running", "report"} =>
       \A i \in 1..Len(issuer.token_files) :
         LET f == issuer.token_files[i]
         IN  IF f.user = "user1"
             THEN issuer.duration > 0 => f.exp < issuer.end_time
             ELSE f.exp > issuer.end_time

----------------------------------------------------------------------------
\* APITrafficSimulator, src/traffic-simulator-json-api.py: simulate_traffic
\* gathers batches of fetch_endpoint coroutines on one event loop.  A
\* coroutine runs without interruption from one await to the next.

\* the fetch tasks of one batch, and the batches of one run
MaxTasks == 2
MaxBatches == 2

FetchTasks == 1..MaxTasks

endpoints == {"/albums", "/users"}

\* what session.get gives: an exception (timeout, connection error), or a
\* response with a status and a body: a JSON array or object, JSON of
\* another kind without a length (a number, null), or text that is not JSON
FetchStatuses == {200, 404, 500}
FetchBodies == {"array", "scalar", "badjson"}
FetchOutcomes ==
  {[kind |-> "exception", status |-> 0, body |-> "none"]}
  \cup {[kind |-> "response", status |-> st, body |-> b] :
          st \in FetchStatuses, b \in FetchBodies}

\* self.metrics after __init__, lines 27-35
Metrics0 ==
  [at |-> "on", total_requests |-> 0, successful_requests |-> 0,
   failed_requests |-> 0,
   endpoint_requests |-> [e \in endpoints |-> 0],
   endpoint_errors |-> [e \in endpoints |-> 0],
   status_code_counts |-> [st \in FetchStatuses |-> 0],
   request_times |-> 0]

\* a failure counted in failed_requests only (a mutant of fetch_failed)
fetch_failed_global(m, endpoint) ==
  [m EXCEPT !.failed_requests = @ + 1]

\* the `except Exception` of fetch_endpoint, lines 237-241
fetch_failed(m, endpoint) ==
  [m EXCEPT !.failed_requests = @ + 1, !.endpoint_errors[endpoint] = @ + 1]

\* lines 194-235: the response is recorded; a 200 counts as successful and
\* its body is parsed, where response.json() may raise ValueError, caught
\* at line 226, and len(data) of a list request may raise TypeError, which
\* reaches line 237; any other status counts as failed
fetch_response(m, endpoint, item_mode, o) ==
  LET timed == [m EXCEPT !.request_times = @ + 1,
                         !.status_code_counts[o.status] = @ + 1]
  IN  IF o.status = 200
      THEN LET ok == [timed EXCEPT !.successful_requests = @ + 1]
           IN  IF o.body = "scalar" /\ ~item_mode
               THEN fetch_failed(ok, endpoint)
               ELSE ok
      ELSE fetch_failed(timed, endpoint)

InitFetch ==
  /\ pet_ids = <<>> /\ usernames = <<>> /\ order_ids = <<>>
  /\ min_pets = DefaultMinimums[1]
  /\ min_users = DefaultMinimums[2]
  /\ min_orders = DefaultMinimums[3]
  /\ pc = [t \in {Main} \cup FetchTasks |-> IF t = Main THEN At("loop") ELSE At("off")]
  /\ operation_count = [t \in {Main} |-> 0]
  /\ universe = BigUniverse
  /\ remote = Unreliable
  /\ issuer = NoIssuer
  /\ auth = ApiKeyOnly
  /\ metrics = Metrics0

FetchFrame == <<pet_ids, usernames, order_ids, min_pets, min_users, min_orders,
                universe, remote, issuer, auth>>

\* simulate_traffic, lines 264-282: the loop test holds, endpoints and modes
\* are drawn, the coroutines are created and gathered
Gather ==
  /\ pc[Main].at = "loop"
  /\ operation_count[Main] < MaxBatches
  /\ \E n \in FetchTasks, e \in [FetchTasks -> endpoints],
        mode \in [FetchTasks -> {"list", "item"}] :
       pc' = [t \in {Main} \cup FetchTasks |->
                IF t = Main THEN At("gather")
                ELSE IF t <= n
                THEN [At("created") EXCEPT !.op = e[t], !.note = mode[t]]
                ELSE At("off")]
  /\ UNCHANGED <<FetchFrame, operation_count, metrics>>

\* fetch_endpoint up to its first await, lines 160-184: the request is
\* counted; self.ua.random may raise, which line 237 catches
FetchStart(t) ==
  /\ pc[t].at = "created"
  /\ LET m == [metrics EXCEPT !.total_requests = @ + 1,
                              !.endpoint_requests[pc[t].op] = @ + 1]
     IN  \/ /\ metrics' = m
            /\ pc' = [pc EXCEPT ![t].at = "sleep"]
         \/ /\ metrics' = fetch_failed(m, pc[t].op)
            /\ pc' = [pc EXCEPT ![t].at = "done"]
  /\ UNCHANGED <<FetchFrame, operation_count>>

\* asyncio.sleep is over and session.get is awaited, lines 184-192
FetchSend(t) ==
  /\ pc[t].at = "sleep"
  /\ pc' = [pc EXCEPT ![t].at = "get"]
  /\ UNCHANGED <<FetchFrame, operation_count, metrics>>

\* session.get returns or raises and fetch_endpoint runs to its end, lines
\* 188-241
FetchReceive(t) ==
  /\ pc[t].at = "get"
  /\ \E o \in FetchOutcomes :
       /\ metrics' = IF o.kind = "exception"
                     THEN fetch_failed(metrics, pc[t].op)
                     ELSE fetch_response(metrics, pc[t].op,
                                         pc[t].note = "item", o)
       /\ pc' = [pc EXCEPT ![t].at = "done", ![t].out = o.body,
                           ![t].seen = o.status]
  /\ UNCHANGED <<FetchFrame, operation_count>>

\* asyncio.gather returns when every coroutine of the batch has returned,
\* lines 282-285
Gathered ==
  /\ pc[Main].at = "gather"
  /\ \A t \in FetchTasks : pc[t].at \in {"off", "done"}
  /\ pc' = [t \in {Main} \cup FetchTasks |-> IF t = Main THEN At("loop") ELSE At("off")]
  /\ operation_count' = [operation_count EXCEPT ![Main] = @ + 1]
  /\ UNCHANGED <<FetchFrame, metrics>>

\* the loop test fails, lines 264, 287, and main() prints the report, line
\* 300
FetchDeadline ==
  /\ pc[Main].at = "loop"
  /\ pc' = [pc EXCEPT ![Main] = At("report")]
  /\ UNCHANGED <<FetchFrame, operation_count, metrics>>

NextFetch ==
  \/ Gather
  \/ \E t \in FetchTasks :
       \/ FetchStart(t)
       \/ FetchSend(t)
       \/ FetchReceive(t)
  \/ Gathered
  \/ FetchDeadline

SpecFetch == InitFetch /\ [][NextFetch]_vars

\* C30 as stated: once every started fetch_endpoint call has completed,
\* total_requests = successful_requests + failed_requests, whatever the
\* statuses, bodies and exceptions were.
C30_AsStated ==
  (\A t \in FetchTasks : pc[t].at \in {"off", "created", "done"}) =>
     metrics.total_requests = metrics.successful_requests + metrics.failed_requests

RECURSIVE SumOver(_, _)
\* the sum of the values of a counter over the keys in D
SumOver(f, D) ==
  IF D = {} THEN 0
  ELSE LET x == CHOOSE y \in D : TRUE
       IN  f[x] + SumOver(f, D \ {x})

\* C31: in every reachable state of APITrafficSimulator the sum of
\* endpoint_requests equals total_requests, the sum of endpoint_errors
\* equals failed_requests, and the sum of status_code_counts equals the
\* number of entries of request_times.
C31_CountersConsistent ==
  /\ SumOver(metrics.endpoint_requests, endpoints) = metrics.total_requests
  /\ SumOver(metrics.endpoint_errors, endpoints) = metrics.failed_requests
  /\ SumOver(metrics.status_code_counts, FetchStatuses) = metrics.request_times

\* two endpoints have been requested, one request was answered 200 with a
\* body without a length and counted as failed after the success, another
\* raised, and a third is still in flight
C31_Witness ==
  /\ metrics.endpoint_requests["/albums"] >= 1
  /\ metrics.endpoint_requests["/users"] >= 1
  /\ metrics.successful_requests >= 1
  /\ metrics.failed_requests >= 2
  /\ metrics.request_times = 1
  /\ \E t \in FetchTasks : pc[t].at = "get"
  /\ \E t \in FetchTasks : pc[t].at = "done" /\ pc[t].out = "scalar"

====
